---- MODULE Spec2Model ----
(***************************************************************************)
(* Reliability layer of the WhatsApp-Memories services: the collector's    *)
(* message deduplicator and publisher (retry, bounded queue, dead-letter), *)
(* the shared terminator (idempotent, timeout-bounded shutdown) and the    *)
(* storage service's multi-provider EmbeddingService.                      *)
(*                                                                         *)
(* Each component has its own specification over the same variables; a     *)
(* component that a specification does not exercise stays in its parked    *)
(* (freshly constructed, default configuration) state.                     *)
(***************************************************************************)
EXTENDS Integers, Sequences, FiniteSets, TLC

VARIABLES
  \* ---- MessageDeduplicator
  dedupWindow,    \* constructor argument windowMs
  seen,           \* Map<messageId, seenAt>; None when the key has no entry
  now,            \* the clock read by shouldProcess (Date.now())
  lastCall,       \* history: the latest shouldProcess call and its result
  lastTrue,       \* history: per key, the time of the latest call that returned true
  \* ---- createTerminator
  timeoutMs,      \* options.timeoutMs
  exitHalts,      \* whether the injected onExit ends the process (process.exit) or returns
  terminating,    \* the closure's flag
  hardTimeout,    \* the setTimeout handle: "none", "armed", "cleared", "fired"
  elapsed,        \* time since the hard timeout was armed
  shutdownState,  \* the promise of options.shutdown(): "notrun", "pending", "resolved", "rejected"
  shutdownCalls,  \* history: number of executions of options.shutdown
  exits,          \* history: the codes onExit was called with, in order
  termCalls,      \* history: the terminate calls, [reason, exitCode, outcome, exitsSeen]
  halted,         \* the process has ended (onExit halted it)
  firedAt,        \* history: value of elapsed when the hard timeout fired, None before
  \* ---- PublisherService
  failedQueue,    \* Array<{channel, payload}>
  flushInterval,  \* the setInterval handle: "null", "active", "cleared"
  isConnected,    \* the flag kept by the redis client's event handlers
  pubCalls,       \* per message, its publish call: [pc, attempt, delay, outcome, via, results]
  flushes,        \* the flushQueue invocations: slot 0 is disconnect's, the others the timer's
  disc,           \* the disconnect call: [pc, remaining, outcome]
  deadLetter,     \* the lines of the dead-letter file, in order
  delivered,      \* history: per payload, how many times the transport accepted it
  pubOrder,       \* history: the messages in the order publish was called
  dlqFailed,      \* history: payloads whose dead-letter write failed
  hist,           \* history: sendOk, pubOverlap, catchInFlush, discDirty, lastEvent,
                  \* pubInFlush (a publish call and a flush overlapped), flushOverlap,
                  \* pubAfterDisc (publish was called after disconnect)
  discStartQueue, \* history: failedQueue when disconnect was called
  discAttempts,   \* history: the final flush's send attempts, [item, ok], in order
  lastFlush,      \* history: the latest flushQueue call that returned, [toFlush, outcomes]
  \* ---- EmbeddingService
  embeddingConfig, \* [provider, fallbackProvider, required, openaiKey, geminiKey]
  embState,       \* "unbuilt", "constructed", or "threw" when the constructor threw
  primary,        \* name of the primary provider, "null" without one
  fallback,       \* name of the fallback provider, "null" without one
  unavailableReason, \* the recorded reason, "null" without one
  stats,          \* Map<provider, ProviderStats>: [init, requestCount, successCount, failureCount]
  genCalls,       \* the generate / generateBatch calls
  providerCalls,  \* history: per provider, the calls made to it
  \* ---- dead-letter file (services/deadLetter)
  fileContent,    \* the characters of the dead-letter file
  fileClock,      \* the clock read by new Date()
  lastWrite,      \* history: the latest writeDeadLetterRecord call
  \* ---- whatsapp-collector process (index.ts, startCollector)
  filterAllows,   \* per message ID, the verdict of filterService.shouldSaveMessage for its sender
  isShuttingDown, \* the flag of startCollector
  handlers,       \* per event, its handleMessage call: [pc, id, listener, at, passed]
  processLog,     \* history: the events handed to messageProcessor.processMessage
  publishLog,     \* history: the events handed to publisher.publish
  colShutdown,    \* the shutdown call that runs the cleanup: [pc, exitCode]
  colTriggers,    \* history: the signals and fatal errors received, [signal, ran]
  colCleanups,    \* history: number of times the cleanup (publisher.disconnect) was started
  colExits,       \* history: the codes process.exit was called with
  \* ---- message-storage process (index.ts, MessageStorageService)
  stoHandlers,    \* per delivered message, its handleMessage call: [pc, text, embedding, provider]
  saveCalls,      \* history: the calls storage.saveMessage(message, embedding, provider)
  messageCount,   \* the service's counter of processed messages
  errorCount,     \* the service's counter of failed messages
  stoRuns,        \* per trigger, the progress of the signal handler it started
  stoTriggers,    \* history: the signals and fatal errors received, [signal, during]
  stoCleanups,    \* history: number of times service.shutdown() was started
  stoExits,       \* history: the codes process.exit was called with
  \* ---- SubscriberService (message-storage)
  subCalls,       \* per delivery, its subscription callback: [pc, payload, invoked, handlerThrew, outcome]
  \* ---- retryWithBackoff (whatsapp-collector/utils/retry)
  retryOptions,   \* the options argument: [maxRetries, initialDelay, backoffMultiplier, maxDelay]
  retryRun,       \* the call: [pc, attempt, delay]
  retrySleeps,    \* history: the delays handed to setTimeout, in order
  retryCalls,     \* history: the outcomes of the calls of fn, in order
  \* ---- FilterService (whatsapp-collector)
  rawContacts,    \* process.env.FILTER_CONTACTS
  filterConfig,   \* config.filter: [mode, contacts, groupsFilter, includeBroadcast]
  lastFilter      \* history: the latest shouldSaveMessage call, and the same call for the normalized sender

dedupVars == <<dedupWindow, seen, now, lastCall, lastTrue>>
termVars == <<timeoutMs, exitHalts, terminating, hardTimeout, elapsed, shutdownState,
              shutdownCalls, exits, termCalls, halted, firedAt>>
pubVars == <<failedQueue, flushInterval, isConnected, pubCalls, flushes, disc, deadLetter,
             delivered, pubOrder, dlqFailed, hist, discStartQueue, discAttempts, lastFlush>>
embVars == <<embeddingConfig, embState, primary, fallback, unavailableReason, stats, genCalls,
             providerCalls>>
fileVars == <<fileContent, fileClock, lastWrite>>
colVars == <<filterAllows, isShuttingDown, handlers, processLog, publishLog, colShutdown,
             colTriggers, colCleanups, colExits>>
stoVars == <<stoHandlers, saveCalls, messageCount, errorCount, stoRuns, stoTriggers,
             stoCleanups, stoExits>>
subVars == <<subCalls>>
retryVars == <<retryOptions, retryRun, retrySleeps, retryCalls>>
filterVars == <<rawContacts, filterConfig, lastFilter>>
vars == <<dedupVars, termVars, pubVars, embVars, fileVars, colVars, stoVars, subVars, retryVars,
          filterVars>>

\* What the actions of one component leave alone: the other components
notDedup == <<termVars, pubVars, embVars, fileVars, colVars, stoVars, subVars, retryVars, filterVars>>
notTerm == <<dedupVars, pubVars, embVars, fileVars, colVars, stoVars, subVars, retryVars, filterVars>>
notPub == <<dedupVars, termVars, embVars, fileVars, colVars, stoVars, subVars, retryVars, filterVars>>
notEmb == <<dedupVars, termVars, pubVars, fileVars, colVars, stoVars, subVars, retryVars, filterVars>>
notFile == <<dedupVars, termVars, pubVars, embVars, colVars, stoVars, subVars, retryVars, filterVars>>
notCol == <<termVars, pubVars, embVars, fileVars, stoVars, subVars, retryVars, filterVars>>
notSto == <<dedupVars, termVars, pubVars, fileVars, colVars, subVars, retryVars, filterVars>>
notSub == <<dedupVars, termVars, pubVars, embVars, fileVars, colVars, stoVars, retryVars, filterVars>>
notRetry == <<dedupVars, termVars, pubVars, embVars, fileVars, colVars, stoVars, subVars, filterVars>>
notFilter == <<dedupVars, termVars, pubVars, embVars, fileVars, colVars, stoVars, subVars, retryVars>>

None == -1

Min(a, b) == IF a <= b THEN a ELSE b

RECURSIVE Pow(_, _)
Pow(b, e) == IF e = 0 THEN 1 ELSE b * Pow(b, e - 1)

(***************************************************************************)
(* Bounds of the model.                                                    *)
(***************************************************************************)
MaxWindow == 3        \* dedup windows 1..MaxWindow are explored
MaxTime == 7          \* the dedup clock runs from 0 to MaxTime
MaxStep == 3          \* largest single advance of the dedup clock
MaxTimeout == 2       \* terminator timeouts 1..MaxTimeout are explored
MaxElapsed == 3       \* terminator time is tracked up to MaxElapsed after arming
MaxTermCalls == 3     \* number of terminate invocations explored
NumMessages == 3      \* messages handed to publish
MaxFlushes == 2       \* periodic flushes that may be in progress at the same time
NumGenerate == 2      \* generate / generateBatch calls, possibly in flight together
MaxPayloadLen == 2    \* every payload of up to MaxPayloadLen characters is written
MaxWrites == 2        \* writeDeadLetterRecord calls on one file
NumEvents == 3        \* message events the collector receives
MaxColTime == 4       \* the collector's clock runs from 0 to MaxColTime
MaxTriggers == 2      \* signals and fatal errors a process receives
NumDeliveries == 3    \* payloads the transport delivers to the subscriber
MaxRetries == 3       \* options.maxRetries ranges over 0..MaxRetries
MaxRetryDelay == 4    \* options.initialDelay and options.maxDelay range over 1..MaxRetryDelay
MaxMultiplier == 3    \* options.backoffMultiplier ranges over 1..MaxMultiplier
MaxIdLen == 2         \* characters of a sender identifier before its suffix

Keys == {"m1", "m2"}
Reasons == {"SIGINT", "SIGTERM", "uncaughtException"}

(***************************************************************************)
(* MessageDeduplicator (utils/deduplication): shouldProcess(key, now).     *)
(* An entry is fresh while now - seenAt < windowMs.  Expired entries are   *)
(* swept when shouldProcess runs; a sweep never drops a fresh entry.       *)
(***************************************************************************)
IsFreshOff(seenAt, t, w) == seenAt # None /\ t - seenAt < w - 1

IsFreshIncl(seenAt, t, w) == seenAt # None /\ t - seenAt <= w

IsFresh(seenAt, t, w) == seenAt # None /\ t - seenAt < w

Sweep(map, t, w) == [k \in Keys |-> IF IsFresh(map[k], t, w) THEN map[k] ELSE None]

ShouldProcessResult(map, key, t, w) == ~IsFresh(map[key], t, w)

DedupInit ==
  /\ dedupWindow \in 1..MaxWindow
  /\ seen = [k \in Keys |-> None]
  /\ now = 0
  /\ lastCall = [key |-> "m1", at |-> None, result |-> FALSE, prevTrue |-> None]
  /\ lastTrue = [k \in Keys |-> None]

DedupParked ==
  /\ dedupWindow = 1
  /\ seen = [k \in Keys |-> None]
  /\ now = 0
  /\ lastCall = [key |-> "m1", at |-> None, result |-> FALSE, prevTrue |-> None]
  /\ lastTrue = [k \in Keys |-> None]

\* deduplicator.shouldProcess(key): its effect on the deduplicator
ShouldProcessCall(key) ==
  LET result == ShouldProcessResult(seen, key, now, dedupWindow)
      swept == Sweep(seen, now, dedupWindow)
  IN /\ seen' = IF result THEN [swept EXCEPT ![key] = now] ELSE swept
     /\ lastCall' = [key |-> key, at |-> now, result |-> result, prevTrue |-> lastTrue[key]]
     /\ lastTrue' = IF result THEN [lastTrue EXCEPT ![key] = now] ELSE lastTrue
     /\ UNCHANGED <<dedupWindow, now>>

ShouldProcess(key) == ShouldProcessCall(key) /\ UNCHANGED notDedup

AdvanceClock(d) ==
  /\ now + d <= MaxTime
  /\ now' = now + d
  /\ UNCHANGED <<dedupWindow, seen, lastCall, lastTrue, notDedup>>

DedupNext ==
  \/ \E key \in Keys : ShouldProcess(key)
  \/ \E d \in 1..MaxStep : AdvanceClock(d)

(***************************************************************************)
(* createTerminator (utils/termination.ts).                                *)
(***************************************************************************)
TermInit ==
  /\ timeoutMs \in 1..MaxTimeout
  /\ exitHalts \in BOOLEAN
  /\ terminating = FALSE
  /\ hardTimeout = "none"
  /\ elapsed = 0
  /\ shutdownState = "notrun"
  /\ shutdownCalls = 0
  /\ exits = <<>>
  /\ termCalls = <<>>
  /\ halted = FALSE
  /\ firedAt = None

TermParked ==
  /\ timeoutMs = 1
  /\ exitHalts = TRUE
  /\ terminating = FALSE
  /\ hardTimeout = "none"
  /\ elapsed = 0
  /\ shutdownState = "notrun"
  /\ shutdownCalls = 0
  /\ exits = <<>>
  /\ termCalls = <<>>
  /\ halted = FALSE
  /\ firedAt = None

\* options.onExit(code): the call is recorded; it ends the process when it is process.exit
OnExit(code) ==
  /\ exits' = Append(exits, code)
  /\ halted' = exitHalts

\* The code passed to onExit when options.shutdown() has settled
SettledExitCodeKeep(ok, exitCode) == exitCode

SettledExitCodeSwap(ok, exitCode) == IF ok THEN 1 ELSE exitCode

SettledExitCode(ok, exitCode) == IF ok THEN exitCode ELSE 1

\* The code the hard timeout passes to onExit
ForcedExitCodeAsked(exitCode) == exitCode

ForcedExitCode(exitCode) == 1

\* The hard timeout is due once timeoutMs has passed since it was armed
TimeoutDueEarly(e, t) == e >= t - 1

TimeoutDue(e, t) == e >= t

\* clearTimeout(hardTimeout): cancels an armed timer, no effect on one that fired
ClearTimeoutNoop(h) == h

ClearTimeout(h) == IF h = "armed" THEN "cleared" ELSE h

\* line 23: the call returns at once when the flag is set
IgnoresCallNever(flag) == FALSE

IgnoresCall(flag) == flag

\* terminate(reason, exitCode) up to its first await: lines 22-37
Terminate(reason, exitCode) ==
  /\ ~halted
  /\ Len(termCalls) < MaxTermCalls
  /\ IF IgnoresCall(terminating)
       THEN /\ termCalls' = Append(termCalls,
                 [reason |-> reason, exitCode |-> exitCode, outcome |-> "resolved",
                  exitsSeen |-> Len(exits)])
            /\ UNCHANGED <<terminating, hardTimeout, elapsed, shutdownState, shutdownCalls>>
       ELSE /\ terminating' = TRUE
            /\ hardTimeout' = "armed"
            /\ elapsed' = 0
            /\ shutdownState' = "pending"
            /\ shutdownCalls' = shutdownCalls + 1
            /\ termCalls' = Append(termCalls,
                 [reason |-> reason, exitCode |-> exitCode, outcome |-> "pending",
                  exitsSeen |-> Len(exits)])
  /\ UNCHANGED <<timeoutMs, exitHalts, exits, halted, firedAt, notTerm>>

\* The terminate call that found terminating = FALSE and runs the cleanup: the first one
FirstCall == Min(1, Len(termCalls))

\* options.shutdown() settles and terminate resumes: lines 38-39 (ok) or 40-44 (rejected)
ShutdownSettles(ok) ==
  /\ ~halted
  /\ shutdownState = "pending"
  /\ shutdownState' = IF ok THEN "resolved" ELSE "rejected"
  /\ hardTimeout' = ClearTimeout(hardTimeout)
  /\ OnExit(SettledExitCode(ok, termCalls[FirstCall].exitCode))
  /\ termCalls' = [termCalls EXCEPT ![FirstCall].outcome = "resolved"]
  /\ UNCHANGED <<timeoutMs, exitHalts, terminating, elapsed, shutdownCalls, firedAt, notTerm>>

\* The setTimeout callback: lines 30-33
HardTimeoutFires ==
  /\ ~halted
  /\ hardTimeout = "armed"
  /\ TimeoutDue(elapsed, timeoutMs)
  /\ hardTimeout' = "fired"
  /\ firedAt' = elapsed
  /\ OnExit(ForcedExitCode(termCalls[FirstCall].exitCode))
  /\ UNCHANGED <<timeoutMs, exitHalts, terminating, elapsed, shutdownState, shutdownCalls,
                 termCalls, notTerm>>

\* Time passes while the process lives
TermTick ==
  /\ ~halted
  /\ terminating
  /\ elapsed < MaxElapsed
  /\ elapsed' = elapsed + 1
  /\ UNCHANGED <<timeoutMs, exitHalts, terminating, hardTimeout, shutdownState, shutdownCalls,
                 exits, termCalls, halted, firedAt, notTerm>>

TermNext ==
  \/ \E reason \in Reasons, exitCode \in {0, 1} : Terminate(reason, exitCode)
  \/ \E ok \in BOOLEAN : ShutdownSettles(ok)
  \/ HardTimeoutFires
  \/ TermTick

(***************************************************************************)
(* PublisherService (services/PublisherService) with retryWithBackoff      *)
(* (utils/retry) and the dead-letter sink (services/deadLetter).           *)
(*                                                                         *)
(* The process is single-threaded: an action is what runs between two      *)
(* awaits.  A send attempt is one action (the completion of                *)
(* client.publish), a dead-letter write is one action (the completion of   *)
(* appendFile); the outcome of each is chosen by the environment.          *)
(***************************************************************************)
Msgs == 1..NumMessages

\* config.retry and config.queue, scaled
maxRetries == 1
initialDelay == 1
backoffMultiplier == 2
maxDelay == 3
maxSize == 2

\* The lookup table's keys (channelMap, lines 268-275)
KnownTypes == {"text", "image", "video", "audio", "document", "other"}

\* message.messageType of the m-th message handed to publish (line 227).  The
\* parameter is typed MessageType but its value is not checked at run time:
\* every third message carries a category that is not in the table.
MessageTypeOf(m) ==
  CASE m % 3 = 1 -> "text"
    [] m % 3 = 2 -> "other"
    [] OTHER -> "sticker"

\* PublisherService.getChannelForMessageType
getChannelForMessageType(type) ==
  CASE type = "text" -> "memories:text:saved"
    [] type = "image" -> "memories:image:saved"
    [] type = "video" -> "memories:video:saved"
    [] type = "audio" -> "memories:audio:saved"
    [] type = "document" -> "memories:document:saved"
    [] type = "other" -> "memories:other:saved"
    [] OTHER -> "undefined"

\* The queue item publish builds for message m: payload = JSON.stringify(message)
Item(m) == [channel |-> getChannelForMessageType(MessageTypeOf(m)), payload |-> m]

DeadLetterRecord(reason, item) ==
  [reason |-> reason, channel |-> item.channel, payload |-> item.payload]

\* writeDeadLetterRecord: one line appended when the write succeeds
writeDeadLetterRecord(file, item, reason, ok) ==
  IF ok THEN Append(file, DeadLetterRecord(reason, item)) ELSE file

\* writeToDeadLetterQueue wraps the write in try/catch: a failed write is logged
writeToDeadLetterQueueThrows(ok) == IF ok THEN "returned" ELSE "threw"

writeToDeadLetterQueue(ok) == "returned"

\* The capacity check made before an item is pushed on failedQueue
HasRoomLoose(queue) == Len(queue) <= maxSize

HasRoom(queue) == Len(queue) < maxSize

IdleCall ==
  [pc |-> "idle", attempt |-> 0, delay |-> 0, outcome |-> "none", via |-> "none",
   results |-> <<>>]
IdleFlush == [pc |-> "idle", toFlush |-> <<>>, idx |-> 0, before |-> <<>>, outcomes |-> <<>>]
FlushSlots == 0..MaxFlushes
FlushBusy == \E f \in FlushSlots : flushes[f].pc # "idle"
PublishBusy == \E m \in Msgs : pubCalls[m].pc \in {"retrying", "dlq"}

PubInit ==
  /\ failedQueue = <<>>
  /\ flushInterval = "null"
  /\ isConnected = FALSE
  /\ pubCalls = [m \in Msgs |-> IdleCall]
  /\ flushes = [f \in FlushSlots |-> IdleFlush]
  /\ disc = [pc |-> "idle", remaining |-> <<>>, outcome |-> "none"]
  /\ deadLetter = <<>>
  /\ delivered = [m \in Msgs |-> 0]
  /\ pubOrder = <<>>
  /\ dlqFailed = {}
  /\ hist = [sendOk |-> FALSE, pubOverlap |-> FALSE, catchInFlush |-> FALSE,
             discDirty |-> FALSE, lastEvent |-> "none", pubInFlush |-> FALSE,
             flushOverlap |-> FALSE, pubAfterDisc |-> FALSE]
  /\ discStartQueue = <<>>
  /\ discAttempts = <<>>
  /\ lastFlush = [toFlush |-> <<>>, outcomes |-> <<>>]

\* connect(): client.connect() succeeded ('connect' was emitted), startQueueFlush()
Connect ==
  /\ flushInterval = "null"
  /\ flushInterval' = "active"
  /\ isConnected' = TRUE
  /\ hist' = [hist EXCEPT !.lastEvent = "connect"]
  /\ UNCHANGED <<failedQueue, pubCalls, flushes, disc, deadLetter, delivered, pubOrder,
                 dlqFailed, discStartQueue, discAttempts, lastFlush, notPub>>

\* The handlers of the client's 'error', 'connect' and 'disconnect' events
RedisEvent(e) ==
  /\ flushInterval # "null"
  /\ isConnected' = (e = "connect")
  /\ isConnected' # isConnected
  /\ hist' = [hist EXCEPT !.lastEvent = e]
  /\ UNCHANGED <<failedQueue, flushInterval, pubCalls, flushes, disc, deadLetter, delivered,
                 pubOrder, dlqFailed, discStartQueue, discAttempts, lastFlush, notPub>>

\* publish(message) up to the first send: lines 226-233.  Messages are numbered
\* in the order in which they are handed to publish.
Publish(m) ==
  /\ flushInterval # "null"
  /\ pubCalls[m].pc = "idle"
  /\ \A k \in 1..(m - 1) : pubCalls[k].pc # "idle"
  /\ pubCalls' = [pubCalls EXCEPT ![m] =
        [pc |-> "retrying", attempt |-> 0, delay |-> initialDelay, outcome |-> "pending",
         via |-> "none", results |-> <<>>]]
  /\ pubOrder' = Append(pubOrder, m)
  /\ hist' = [hist EXCEPT !.pubOverlap = @ \/ PublishBusy,
                          !.discDirty = @ \/ disc.pc # "idle",
                          !.pubInFlush = @ \/ FlushBusy,
                          !.pubAfterDisc = @ \/ disc.pc # "idle"]
  /\ UNCHANGED <<failedQueue, flushInterval, isConnected, flushes, disc, deadLetter,
                 delivered, dlqFailed, discStartQueue, discAttempts, lastFlush, notPub>>

\* logger.ts lines 54 and 60: a failed attempt is followed by another one
RetriesLeftOneMore(attempt) == attempt <= maxRetries

RetriesLeft(attempt) == attempt < maxRetries

\* One attempt of retryWithBackoff completes.  A failure before the last attempt
\* sleeps and updates delay; the last failure makes retryWithBackoff throw, and
\* publish's catch queues the item or turns to the dead-letter file.
PublishAttempt(m, ok) ==
  LET c == pubCalls[m]
      results == Append(c.results, ok)
  IN
  /\ c.pc = "retrying"
  /\ IF ok
       THEN /\ delivered' = [delivered EXCEPT ![m] = @ + 1]
            /\ pubCalls' = [pubCalls EXCEPT ![m].pc = "done", ![m].outcome = "resolved",
                                            ![m].via = "sent", ![m].results = results]
            /\ hist' = [hist EXCEPT !.sendOk = TRUE]
            /\ UNCHANGED failedQueue
       ELSE IF RetriesLeft(c.attempt)
         THEN /\ pubCalls' = [pubCalls EXCEPT
                    ![m].attempt = c.attempt + 1,
                    ![m].delay = Min(c.delay * backoffMultiplier, maxDelay),
                    ![m].results = results]
              /\ UNCHANGED <<failedQueue, delivered, hist>>
         ELSE /\ IF HasRoom(failedQueue)
                   THEN /\ failedQueue' = Append(failedQueue, Item(m))
                        /\ pubCalls' = [pubCalls EXCEPT ![m].pc = "done",
                                                        ![m].outcome = "resolved",
                                                        ![m].via = "queued",
                                                        ![m].results = results]
                   ELSE /\ pubCalls' = [pubCalls EXCEPT ![m].pc = "dlq",
                                                        ![m].results = results]
                        /\ UNCHANGED failedQueue
              /\ hist' = [hist EXCEPT !.catchInFlush = @ \/ FlushBusy]
              /\ UNCHANGED delivered
  /\ UNCHANGED <<flushInterval, isConnected, flushes, disc, deadLetter, pubOrder, dlqFailed,
                 discStartQueue, discAttempts, lastFlush, notPub>>

\* publish: await writeToDeadLetterQueue(channel, payload, 'queue-full') completes
PublishDeadLetter(m, ok) ==
  /\ pubCalls[m].pc = "dlq"
  /\ deadLetter' = writeDeadLetterRecord(deadLetter, Item(m), "queue-full", ok)
  /\ dlqFailed' = IF ok THEN dlqFailed ELSE dlqFailed \cup {m}
  /\ pubCalls' = [pubCalls EXCEPT
        ![m].pc = "done",
        ![m].via = IF ok THEN "dead-letter" ELSE "dropped",
        ![m].outcome = IF writeToDeadLetterQueue(ok) = "threw" THEN "rejected" ELSE "resolved"]
  /\ UNCHANGED <<failedQueue, flushInterval, isConnected, flushes, disc, delivered, pubOrder,
                 hist, discStartQueue, discAttempts, lastFlush, notPub>>

\* line 300: this.failedQueue = []
AfterSnapshotKept(queue) == queue

AfterSnapshot(queue) == <<>>

\* flushQueue(), lines 299-300: take the queue
StartFlush(f) ==
  /\ flushes' = [flushes EXCEPT ![f] = [IdleFlush EXCEPT !.pc = "send", !.toFlush = failedQueue,
                                                     !.idx = 1]]
  /\ failedQueue' = AfterSnapshot(failedQueue)
  /\ hist' = [hist EXCEPT !.pubInFlush = @ \/ PublishBusy,
                          !.flushOverlap = @ \/ FlushBusy,
                          !.discDirty = @ \/ (f = 0 /\ (PublishBusy \/ FlushBusy))]

\* The test the setInterval callback makes before it calls flushQueue (line 284)
TickFlushesNonEmpty(queue, connected) == Len(queue) > 0

TickFlushesWhenDown(queue, connected) == Len(queue) > 0 /\ ~connected

TickFlushes(queue, connected) == Len(queue) > 0 /\ connected

\* The setInterval callback of startQueueFlush
FlushTick(f) ==
  /\ flushInterval = "active"
  /\ f # 0
  /\ flushes[f].pc = "idle"
  /\ \A g \in 1..(f - 1) : flushes[g].pc # "idle"
  /\ TickFlushes(failedQueue, isConnected)
  /\ StartFlush(f)
  /\ UNCHANGED <<flushInterval, isConnected, pubCalls, disc, deadLetter, delivered, pubOrder,
                 dlqFailed, discStartQueue, discAttempts, lastFlush, notPub>>

AfterFinalFlushKeeps(q) ==
  /\ disc' = [disc EXCEPT !.pc = "client"]
  /\ failedQueue' = q

\* disconnect() after its flushQueue() has returned, lines 346-354, with the
\* queue q left by the flush
AfterFinalFlush(q) ==
  IF Len(q) > 0
    THEN /\ disc' = [disc EXCEPT !.pc = "remaining", !.remaining = q]
         /\ failedQueue' = <<>>
    ELSE /\ disc' = [disc EXCEPT !.pc = "client"]
         /\ failedQueue' = q

\* flushQueue has dealt with its current item: the item's outcome is recorded,
\* then flushQueue moves to its next item or returns; q is the queue it leaves
FlushAdvance(f, q, ok, before, via) ==
  LET fl == flushes[f]
      outcome == [item |-> fl.toFlush[fl.idx], ok |-> ok, before |-> before, via |-> via,
                  after |-> q]
      outcomes == Append(fl.outcomes, outcome)
  IN
  IF fl.idx < Len(fl.toFlush)
    THEN /\ flushes' = [flushes EXCEPT ![f].pc = "send", ![f].idx = fl.idx + 1,
                                       ![f].before = <<>>, ![f].outcomes = outcomes]
         /\ failedQueue' = q
         /\ UNCHANGED <<disc, lastFlush>>
    ELSE /\ flushes' = [flushes EXCEPT ![f] = IdleFlush]
         /\ lastFlush' = [toFlush |-> fl.toFlush, outcomes |-> outcomes]
         /\ IF f = 0 THEN AfterFinalFlush(q) ELSE (failedQueue' = q /\ UNCHANGED disc)

\* line 316: this.failedQueue.push(item)
RequeueFront(queue, item) == <<item>> \o queue

Requeue(queue, item) == Append(queue, item)

\* lines 315-319: where an item goes whose send failed
FlushFailureRouteDrop(queue) == IF HasRoom(queue) THEN "requeue" ELSE "drop"

FlushFailureRoute(queue) == IF HasRoom(queue) THEN "requeue" ELSE "dead-letter"

\* flushQueue: await client.publish(item.channel, item.payload) completes
FlushSend(f, ok) ==
  LET fl == flushes[f]
      item == fl.toFlush[fl.idx]
      route == FlushFailureRoute(failedQueue)
  IN
  /\ fl.pc = "send"
  /\ discAttempts' = IF f = 0 THEN Append(discAttempts, [item |-> item, ok |-> ok])
                     ELSE discAttempts
  /\ IF ok
       THEN /\ delivered' = [delivered EXCEPT ![item.payload] = @ + 1]
            /\ hist' = [hist EXCEPT !.sendOk = TRUE]
            /\ FlushAdvance(f, failedQueue, TRUE, failedQueue, "sent")
       ELSE /\ UNCHANGED <<delivered, hist>>
            /\ CASE route = "requeue" ->
                      FlushAdvance(f, Requeue(failedQueue, item), FALSE, failedQueue, "requeued")
                 [] route = "dead-letter" ->
                      /\ flushes' = [flushes EXCEPT ![f].pc = "dlq",
                                                    ![f].before = failedQueue]
                      /\ UNCHANGED <<failedQueue, disc, lastFlush>>
                 [] OTHER -> FlushAdvance(f, failedQueue, FALSE, failedQueue, "dropped")
  /\ UNCHANGED <<flushInterval, isConnected, pubCalls, deadLetter, pubOrder, dlqFailed,
                 discStartQueue, notPub>>

\* flushQueue: await writeToDeadLetterQueue(..., 'flush-requeue-full') completes
FlushDeadLetter(f, ok) ==
  LET fl == flushes[f]
      item == fl.toFlush[fl.idx]
  IN
  /\ fl.pc = "dlq"
  /\ deadLetter' = writeDeadLetterRecord(deadLetter, item, "flush-requeue-full", ok)
  /\ dlqFailed' = IF ok THEN dlqFailed ELSE dlqFailed \cup {item.payload}
  /\ FlushAdvance(f, failedQueue, FALSE, fl.before, IF ok THEN "dead-letter" ELSE "dropped")
  /\ UNCHANGED <<flushInterval, isConnected, pubCalls, delivered, pubOrder, hist,
                 discStartQueue, discAttempts, notPub>>

\* disconnect() up to its first await: lines 335-344
Disconnect ==
  /\ flushInterval # "null"
  /\ disc.pc = "idle"
  /\ flushInterval' = "cleared"
  /\ discStartQueue' = failedQueue
  /\ IF Len(failedQueue) > 0
       THEN /\ StartFlush(0)
            /\ disc' = [disc EXCEPT !.pc = "flush", !.outcome = "pending"]
       ELSE /\ disc' = [disc EXCEPT !.pc = "client", !.outcome = "pending"]
            /\ hist' = [hist EXCEPT !.discDirty = @ \/ PublishBusy \/ FlushBusy]
            /\ UNCHANGED <<failedQueue, flushes>>
  /\ UNCHANGED <<isConnected, pubCalls, deadLetter, delivered, pubOrder, dlqFailed,
                 discAttempts, lastFlush, notPub>>

\* disconnect: await writeToDeadLetterQueue(..., 'shutdown-unflushed') completes
DisconnectDeadLetter(ok) ==
  LET item == Head(disc.remaining) IN
  /\ disc.pc = "remaining"
  /\ deadLetter' = writeDeadLetterRecord(deadLetter, item, "shutdown-unflushed", ok)
  /\ dlqFailed' = IF ok THEN dlqFailed ELSE dlqFailed \cup {item.payload}
  /\ disc' = [disc EXCEPT !.remaining = Tail(disc.remaining),
                          !.pc = IF Len(disc.remaining) > 1 THEN "remaining" ELSE "client"]
  /\ UNCHANGED <<failedQueue, flushInterval, isConnected, pubCalls, flushes, delivered,
                 pubOrder, hist, discStartQueue, discAttempts, lastFlush, notPub>>

\* disconnect: await client.disconnect() completes; a failure is caught and logged
DisconnectClient(ok) ==
  /\ disc.pc = "client"
  /\ disc' = [disc EXCEPT !.pc = "done", !.outcome = "resolved"]
  /\ UNCHANGED <<failedQueue, flushInterval, isConnected, pubCalls, flushes, deadLetter,
                 delivered, pubOrder, dlqFailed, hist, discStartQueue, discAttempts,
                 lastFlush, notPub>>

PubNext ==
  \/ Connect
  \/ \E e \in {"error", "connect", "disconnect"} : RedisEvent(e)
  \/ \E m \in Msgs : Publish(m)
  \/ \E m \in Msgs, ok \in BOOLEAN : PublishAttempt(m, ok)
  \/ \E m \in Msgs, ok \in BOOLEAN : PublishDeadLetter(m, ok)
  \/ \E f \in FlushSlots : FlushTick(f)
  \/ \E f \in FlushSlots, ok \in BOOLEAN : FlushSend(f, ok)
  \/ \E f \in FlushSlots, ok \in BOOLEAN : FlushDeadLetter(f, ok)
  \/ Disconnect
  \/ \E ok \in BOOLEAN : DisconnectDeadLetter(ok)
  \/ \E ok \in BOOLEAN : DisconnectClient(ok)

(***************************************************************************)
(* EmbeddingService (services/embeddings/EmbeddingService).                *)
(***************************************************************************)
ProviderTypes == {"openai", "gemini"}
GenCalls == 1..NumGenerate

\* The texts handed to generate, and the lists handed to generateBatch
Texts == {"", " ", "hi"}
Batches == {<<>>, <<" ">>, <<"hi">>, <<"", "hi">>}

\* !text || text.trim().length === 0
IsBlankEmptyOnly(text) == text = ""

IsBlank(text) == text \in {"", " "}

\* retryWithBackoff's default maxAttempts and initialDelay (scaled)
maxAttempts == 3
embInitialDelay == 1

\* line 597: the delay slept after failed attempt number `attempt`
BackoffDelayFlat(attempt) == embInitialDelay

BackoffDelay(attempt) == embInitialDelay * Pow(2, attempt - 1)

\* lines 595-603: a failed attempt is followed by a sleep unless it was the last
SleepAfter(attempt) == IF attempt < maxAttempts THEN BackoffDelay(attempt) ELSE 0

NoError == [kind |-> "none", provider |-> "null", attempt |-> 0, message |-> "null"]
ValidationError ==
  [kind |-> "validation", provider |-> "null", attempt |-> 0,
   message |-> "Cannot generate embedding for empty text"]
ProviderError(name, attempt) ==
  [kind |-> "provider", provider |-> name, attempt |-> attempt, message |-> "provider call failed"]
UnavailableError(reason) ==
  [kind |-> "unavailable", provider |-> "null", attempt |-> 0,
   message |-> IF reason # "null" THEN reason
               ELSE "Embedding provider is unavailable in degraded mode"]

HasKey(cfg, provider) == IF provider = "openai" THEN cfg.openaiKey ELSE cfg.geminiKey

MissingKeyMessage(provider) ==
  IF provider = "openai"
    THEN "[EmbeddingService] OpenAI provider configured but OPENAI_API_KEY is missing"
    ELSE "[EmbeddingService] Gemini provider configured but GEMINI_API_KEY is missing"

\* tryCreateProvider(provider, isPrimary): the provider created ("null" when its
\* key is missing) and the reason it assigns to unavailableReason ("null": none)
tryCreateProviderUnchecked(cfg, provider, isPrimary) ==
  [provider |-> provider, reason |-> "null"]

tryCreateProvider(cfg, provider, isPrimary) ==
  IF ~HasKey(cfg, provider)
    THEN [provider |-> "null",
          reason |-> IF isPrimary THEN MissingKeyMessage(provider) ELSE "null"]
    ELSE [provider |-> provider, reason |-> "null"]

\* IEmbeddingProvider.dimensions: both providers pad to 1536
Dimensions(name) == 1536

getDimensions == IF primary # "null" THEN Dimensions(primary) ELSE 0

isAvailableAny == primary # "null" \/ fallback # "null"

isAvailable == primary # "null"

getUnavailableReason == unavailableReason

NoStats == [init |-> FALSE, requestCount |-> 0, successCount |-> 0, failureCount |-> 0]

\* initStats for the providers that exist
initStats(p, f) ==
  [name \in ProviderTypes |-> IF name \in {p, f} THEN [NoStats EXCEPT !.init = TRUE] ELSE NoStats]

recordRequest(st, name) ==
  IF st[name].init THEN [st EXCEPT ![name].requestCount = @ + 1] ELSE st

recordSuccess(st, name) ==
  IF st[name].init THEN [st EXCEPT ![name].successCount = @ + 1] ELSE st

recordFailureTwice(st, name) ==
  IF st[name].init THEN [st EXCEPT ![name].failureCount = @ + 2] ELSE st

recordFailure(st, name) ==
  IF st[name].init THEN [st EXCEPT ![name].failureCount = @ + 1] ELSE st

\* A generate / generateBatch call.  text is generate's argument ("" for
\* generateBatch); log is the history of the call's provider calls, each
\* [role, name, attempt, ok, slept], slept being the delay slept after it
IdleGen ==
  [pc |-> "idle", kind |-> "none", text |-> "", valid |-> 0, attempt |-> 0,
   outcome |-> "none", provider |-> "null", error |-> NoError, primaryError |-> NoError,
   log |-> <<>>]

EmbCommon ==
  /\ embState = "unbuilt"
  /\ primary = "null"
  /\ fallback = "null"
  /\ unavailableReason = "null"
  /\ stats = [name \in ProviderTypes |-> NoStats]
  /\ genCalls = [c \in GenCalls |-> IdleGen]
  /\ providerCalls = [name \in ProviderTypes |-> 0]

EmbInit ==
  /\ embeddingConfig \in [provider : ProviderTypes,
                          fallbackProvider : ProviderTypes \cup {"none"},
                          required : BOOLEAN,
                          openaiKey : BOOLEAN,
                          geminiKey : BOOLEAN]
  /\ EmbCommon

EmbParked ==
  /\ embeddingConfig = [provider |-> "openai", fallbackProvider |-> "none",
                        required |-> FALSE, openaiKey |-> FALSE, geminiKey |-> FALSE]
  /\ EmbCommon

\* The constructor's check `!this.primary && this.embeddingConfig.required`
ConstructorThrowsInverted(p, required) == p # "null" /\ required

ConstructorThrows(p, required) == p = "null" /\ required

\* new EmbeddingService(embeddingConfig): lines 475-513
Construct ==
  LET cfg == embeddingConfig
      p == tryCreateProvider(cfg, cfg.provider, TRUE)
      f == IF cfg.fallbackProvider # "none"
             THEN tryCreateProvider(cfg, cfg.fallbackProvider, FALSE).provider
             ELSE "null"
  IN
  /\ embState = "unbuilt"
  /\ IF ConstructorThrows(p.provider, cfg.required)
       THEN /\ embState' = "threw"
            /\ UNCHANGED <<primary, fallback, unavailableReason, stats>>
       ELSE /\ embState' = "constructed"
            /\ primary' = p.provider
            /\ fallback' = f
            /\ unavailableReason' = p.reason
            /\ stats' = initStats(p.provider, f)
  /\ UNCHANGED <<embeddingConfig, genCalls, providerCalls, notEmb>>

\* generate / generateBatch up to the first provider call, for a call with
\* `valid` non-blank texts: lines 613-630 and 678-701
StartCallStep(c, kind, text, valid, rejectsBlank) ==
  /\ embState = "constructed"
  /\ genCalls[c].pc = "idle"
  /\ IF valid = 0
       THEN /\ genCalls' = [genCalls EXCEPT ![c] =
                 [IdleGen EXCEPT !.pc = "done", !.kind = kind, !.text = text,
                    !.outcome = IF rejectsBlank THEN "rejected" ELSE "resolved",
                    !.error = IF rejectsBlank THEN ValidationError ELSE NoError]]
            /\ UNCHANGED stats
       ELSE IF primary = "null"
         THEN /\ genCalls' = [genCalls EXCEPT ![c] =
                   [IdleGen EXCEPT !.pc = "done", !.kind = kind, !.text = text,
                      !.valid = valid,
                      !.outcome = "rejected", !.error = UnavailableError(unavailableReason)]]
              /\ UNCHANGED stats
         ELSE /\ genCalls' = [genCalls EXCEPT ![c] =
                   [IdleGen EXCEPT !.pc = "primary", !.kind = kind, !.text = text,
                      !.valid = valid,
                      !.attempt = 1, !.outcome = "pending"]]
              /\ stats' = recordRequest(stats, primary)
  /\ UNCHANGED <<embeddingConfig, embState, primary, fallback, unavailableReason,
                 providerCalls>>

StartCall(c, kind, text, valid, rejectsBlank) ==
  StartCallStep(c, kind, text, valid, rejectsBlank) /\ UNCHANGED notEmb

Generate(c, text) == StartCall(c, "generate", text, IF IsBlank(text) THEN 0 ELSE 1, TRUE)

GenerateBatch(c, texts) ==
  StartCall(c, "generateBatch", "", Len(SelectSeq(texts, LAMBDA t : ~IsBlank(t))), FALSE)

\* The error generate raises when the fallback has exhausted its retries too
ExhaustedError(primaryError, fallbackError) == fallbackError

\* lines 633 and 656: the provider a successful result names
ProducedByPrimary(role) == primary

ProducedBy(role) == IF role = "primary" THEN primary ELSE fallback

\* A provider call of retryWithBackoff completes: lines 590-607 and the
\* continuation of generate / generateBatch
ProviderReturns(c, ok) ==
  LET g == genCalls[c]
      name == IF g.pc = "primary" THEN primary ELSE fallback
      err == ProviderError(name, g.attempt)
      log == Append(g.log, [role |-> g.pc, name |-> name, attempt |-> g.attempt, ok |-> ok,
                            slept |-> IF ok THEN 0 ELSE SleepAfter(g.attempt)])
  IN
  /\ g.pc \in {"primary", "fallback"}
  /\ providerCalls' = [providerCalls EXCEPT ![name] = @ + 1]
  /\ IF ok
       THEN /\ stats' = recordSuccess(stats, name)
            /\ genCalls' = [genCalls EXCEPT ![c].pc = "done", ![c].outcome = "resolved",
                                            ![c].provider = ProducedBy(g.pc), ![c].log = log]
       ELSE IF g.attempt < maxAttempts
         THEN /\ genCalls' = [genCalls EXCEPT ![c].attempt = g.attempt + 1, ![c].log = log]
              /\ UNCHANGED stats
         ELSE IF g.pc = "primary"
           THEN IF fallback # "null"
             THEN /\ stats' = recordRequest(recordFailure(stats, primary), fallback)
                  /\ genCalls' = [genCalls EXCEPT ![c].pc = "fallback", ![c].attempt = 1,
                                                  ![c].primaryError = err, ![c].log = log]
             ELSE /\ stats' = recordFailure(stats, primary)
                  /\ genCalls' = [genCalls EXCEPT ![c].pc = "done",
                                                  ![c].outcome = "rejected",
                                                  ![c].primaryError = err,
                                                  ![c].error = err, ![c].log = log]
           ELSE /\ stats' = recordFailure(stats, fallback)
                /\ genCalls' = [genCalls EXCEPT ![c].pc = "done",
                                                ![c].outcome = "rejected",
                                                ![c].error = ExhaustedError(g.primaryError, err),
                                                ![c].log = log]
  /\ UNCHANGED <<embeddingConfig, embState, primary, fallback, unavailableReason,
                 notEmb>>

EmbNext ==
  \/ Construct
  \/ \E c \in GenCalls, text \in Texts : Generate(c, text)
  \/ \E c \in GenCalls, texts \in Batches : GenerateBatch(c, texts)
  \/ \E c \in GenCalls, ok \in BOOLEAN : ProviderReturns(c, ok)

(***************************************************************************)
(* The dead-letter file (services/deadLetter.ts), at the level of its text. *)
(*                                                                         *)
(* A string is a sequence of characters.  The characters that matter to    *)
(* JSON are "dq" (double quote), "bs" (backslash), "lf" (line feed), "{",   *)
(* "}", ":" and ","; "a" and "n" are letters; a word such as "messageId",   *)
(* "null" or "1" stands for its letters.                                   *)
(***************************************************************************)
Undefined == [kind |-> "undefined", str |-> <<>>, members |-> <<>>]
JsNull == [kind |-> "null", str |-> <<>>, members |-> <<>>]
JsString(str) == [kind |-> "string", str |-> str, members |-> <<>>]
JsNumber(str) == [kind |-> "number", str |-> str, members |-> <<>>]
JsObject(members) == [kind |-> "object", str |-> <<>>, members |-> members]

At(str, i) == IF i \in 1..Len(str) THEN str[i] ELSE "eof"

\* JSON.stringify of one character of a string
EscapeCharRaw(c) ==
  CASE c = "dq" -> <<"bs", "dq">>
    [] c = "bs" -> <<"bs", "bs">>
    [] OTHER -> <<c>>

EscapeChar(c) ==
  CASE c = "dq" -> <<"bs", "dq">>
    [] c = "bs" -> <<"bs", "bs">>
    [] c = "lf" -> <<"bs", "n">>
    [] OTHER -> <<c>>

\* the escaped text of a string: character k of str starts at EscapeStart(str, k)
EscapeStart(str, k) == k + Cardinality({x \in 1..(k - 1) : Len(EscapeChar(str[x])) = 2})

JsonEscape(str) ==
  [j \in 1..(EscapeStart(str, Len(str) + 1) - 1) |->
     LET k == CHOOSE k \in 1..Len(str) :
                 EscapeStart(str, k) <= j /\ j < EscapeStart(str, k + 1)
     IN EscapeChar(str[k])[j - EscapeStart(str, k) + 1]]

\* JSON.stringify of a string
JsonQuote(str) == <<"dq">> \o JsonEscape(str) \o <<"dq">>

\* JSON.stringify of a value; a member whose value is undefined is left out
RECURSIVE JsonStringify(_)
RECURSIVE JoinMembers(_)
JoinMembers(members) ==
  IF members = <<>> THEN <<>>
  ELSE JsonQuote(Head(members).key) \o <<":">> \o JsonStringify(Head(members).value)
         \o (IF Len(members) > 1 THEN <<",">> ELSE <<>>) \o JoinMembers(Tail(members))

JsonStringify(v) ==
  CASE v.kind = "string" -> JsonQuote(v.str)
    [] v.kind = "null" -> <<"null">>
    [] v.kind = "number" -> v.str
    [] v.kind = "object" ->
         <<"{">> \o JoinMembers(SelectSeq(v.members, LAMBDA m : m.value.kind # "undefined"))
                \o <<"}">>

\* JSON.parse: the result of parsing a value that starts at position i
ParseFail == [ok |-> FALSE, value |-> Undefined, next |-> 0]

\* The number of backslashes that immediately precede position k of a string
\* literal whose characters start at position i
BsRun(str, i, k) ==
  LET stops == {j \in (i - 1)..(k - 1) : j = i - 1 \/ str[j] # "bs"} IN
  (k - 1) - (CHOOSE j \in stops : \A x \in stops : x <= j)

\* character k is the second character of an escape sequence
Escaped(str, i, k) == BsRun(str, i, k) % 2 = 1

\* the characters of a string literal after its opening quote, which is at i - 1
ParseStringBody(str, i) ==
  LET closing == {k \in i..Len(str) : str[k] = "dq" /\ ~Escaped(str, i, k)}
      close == CHOOSE k \in closing : \A x \in closing : k <= x
      body == [j \in 1..(close - i) |-> i + j - 1]
      kept == SelectSeq(body, LAMBDA k : ~(str[k] = "bs" /\ ~Escaped(str, i, k)))
      Decode(k) == IF Escaped(str, i, k) /\ str[k] = "n" THEN "lf" ELSE str[k]
  IN
  IF closing = {} THEN ParseFail
  ELSE IF \E k \in i..(close - 1) :
            \/ str[k] = "lf"
            \/ Escaped(str, i, k) /\ str[k] \notin {"dq", "bs", "n"}
    THEN ParseFail
  ELSE [ok |-> TRUE, value |-> JsString([j \in 1..Len(kept) |-> Decode(kept[j])]),
        next |-> close + 1]

RECURSIVE ParseValue(_, _)
RECURSIVE ParseMembers(_, _, _)
ParseMembers(str, i, acc) ==
  LET key == ParseStringBody(str, i + 1)
      val == ParseValue(str, key.next + 1)
      all == Append(acc, [key |-> key.value.str, value |-> val.value])
  IN
  IF At(str, i) # "dq" THEN ParseFail
  ELSE IF ~key.ok \/ At(str, key.next) # ":" THEN ParseFail
  ELSE IF ~val.ok THEN ParseFail
  ELSE CASE At(str, val.next) = "," -> ParseMembers(str, val.next + 1, all)
         [] At(str, val.next) = "}" ->
              [ok |-> TRUE, value |-> JsObject(all), next |-> val.next + 1]
         [] OTHER -> ParseFail

ParseValue(str, i) ==
  LET c == At(str, i) IN
  CASE c = "dq" -> ParseStringBody(str, i + 1)
    [] c = "null" -> [ok |-> TRUE, value |-> JsNull, next |-> i + 1]
    [] c = "1" -> [ok |-> TRUE, value |-> JsNumber(<<"1">>), next |-> i + 1]
    [] c = "{" ->
         IF At(str, i + 1) = "}"
           THEN [ok |-> TRUE, value |-> JsObject(<<>>), next |-> i + 2]
           ELSE ParseMembers(str, i + 1, <<>>)
    [] OTHER -> ParseFail

\* white space around the value is skipped
RECURSIVE SkipWs(_, _)
SkipWs(str, i) == IF At(str, i) = "lf" THEN SkipWs(str, i + 1) ELSE i

\* JSON.parse(str): ok is FALSE when it throws a SyntaxError
JsonParse(str) ==
  LET v == ParseValue(str, SkipWs(str, 1)) IN
  IF v.ok /\ SkipWs(str, v.next) = Len(str) + 1
    THEN [ok |-> TRUE, value |-> v.value]
    ELSE [ok |-> FALSE, value |-> Undefined]

\* value.key for a parsed object: the last member of that name wins
Get(v, key) ==
  LET idx == {i \in 1..Len(v.members) : v.members[i].key = key} IN
  IF idx = {} THEN Undefined
  ELSE v.members[CHOOSE i \in idx : \A j \in idx : j <= i].value

\* lines 22-28: the messageId read from the payload inside try/catch; reading
\* a property of null throws a TypeError, which the catch takes too
ExtractMessageIdUncaught(payload) ==
  LET parsed == JsonParse(payload) IN
  IF ~parsed.ok \/ parsed.value.kind = "null"
    THEN [threw |-> TRUE, messageId |-> Undefined]
    ELSE [threw |-> FALSE, messageId |-> Get(parsed.value, <<"messageId">>)]

ExtractMessageId(payload) ==
  LET parsed == JsonParse(payload) IN
  IF ~parsed.ok \/ parsed.value.kind = "null"
    THEN [threw |-> FALSE, messageId |-> Undefined]
    ELSE [threw |-> FALSE, messageId |-> Get(parsed.value, <<"messageId">>)]

\* new Date().toISOString()
toISOString(t) == <<"T", <<"0", "1", "2", "3", "4">>[t + 1]>>

\* lines 30-36: the record
BuildRecord(timestamp, reason, channel, messageId, payload) ==
  JsObject(<<[key |-> <<"timestamp">>, value |-> JsString(timestamp)],
             [key |-> <<"reason">>, value |-> JsString(<<reason>>)],
             [key |-> <<"channel">>, value |-> JsString(<<channel>>)],
             [key |-> <<"messageId">>, value |-> messageId],
             [key |-> <<"payload">>, value |-> JsString(payload)]>>)

\* content.split('\n'), without the empty piece after the last line feed
Lines(content) ==
  LET ends == {i \in 1..Len(content) : content[i] = "lf"}
                \cup (IF Len(content) > 0 /\ content[Len(content)] # "lf"
                        THEN {Len(content) + 1} ELSE {})
      End(k) == CHOOSE e \in ends : Cardinality({x \in ends : x < e}) = k - 1
  IN [k \in 1..Cardinality(ends) |->
        SubSeq(content, (IF k = 1 THEN 0 ELSE End(k - 1)) + 1, End(k) - 1)]

\* The payloads handed to writeDeadLetterRecord: every short string, and
\* serialized messages and other JSON texts
PayloadChars == {"a", "dq", "bs", "lf"}
ShortPayloads == UNION {[1..n -> PayloadChars] : n \in 0..MaxPayloadLen}
JsonPayloads ==
  { <<"{", "dq", "messageId", "dq", ":", "dq", "a", "dq", "}">>,
    <<"{", "dq", "messageId", "dq", ":", "dq", "a", "bs", "dq", "bs", "n", "bs", "bs", "dq", "}">>,
    <<"{", "dq", "text", "dq", ":", "dq", "a", "dq", ",",
           "dq", "messageId", "dq", ":", "dq", "a", "a", "dq", "}">>,
    <<"{", "dq", "text", "dq", ":", "dq", "a", "dq", "}">>,
    <<"{", "dq", "messageId", "dq", ":", "null", "}">>,
    <<"{", "dq", "messageId", "dq", ":", "1", "}">>,
    <<"{", "}">>,
    <<"null">>,
    <<"1">>,
    <<"1", "lf">>,
    <<"{", "dq", "messageId", "dq", ":">>,
    <<"dq", ",", "dq", "payload", "dq", ":", "dq", "a">> }
Payloads == ShortPayloads \cup JsonPayloads
Channels == {"memories:text:saved", "memories:other:saved"}
DeadLetterReasons == {"queue-full", "flush-requeue-full", "shutdown-unflushed"}

NoWrite ==
  [n |-> 0, channel |-> "none", payload |-> <<>>, reason |-> "none", ok |-> FALSE,
   outcome |-> "none", before |-> <<>>, timestamp |-> <<>>]

FileInit ==
  /\ fileContent = <<>>
  /\ fileClock = 0
  /\ lastWrite = NoWrite

\* writeDeadLetterRecord(deadLetterPath, channel, payload, reason): lines 14-39.
\* ok is whether mkdir and appendFile succeed; when they do not the call rejects.
WriteRecord(channel, payload, reason, ok) ==
  LET id == ExtractMessageId(payload)
      timestamp == toISOString(fileClock)
      record == BuildRecord(timestamp, reason, channel, id.messageId, payload)
      appended == ok /\ ~id.threw
  IN
  /\ lastWrite.n < MaxWrites
  /\ fileContent' = IF appended THEN fileContent \o JsonStringify(record) \o <<"lf">>
                    ELSE fileContent
  /\ lastWrite' = [n |-> lastWrite.n + 1, channel |-> channel, payload |-> payload,
                   reason |-> reason, ok |-> ok,
                   outcome |-> IF appended THEN "resolved" ELSE "rejected",
                   before |-> fileContent, timestamp |-> timestamp]
  /\ fileClock' = fileClock + 1
  /\ UNCHANGED notFile

FileNext ==
  \E channel \in Channels, payload \in Payloads, reason \in DeadLetterReasons, ok \in BOOLEAN :
    WriteRecord(channel, payload, reason, ok)

(***************************************************************************)
(* The whatsapp-collector process (index.ts, startCollector): the          *)
(* 'message_create' and 'message' listeners, handleMessage, and shutdown.  *)
(* publisher.publish and publisher.disconnect are calls seen from outside. *)
(***************************************************************************)
Events == 1..NumEvents
Listeners == {"message_create", "message"}
Signals == {"SIGINT", "SIGTERM", "uncaughtException", "unhandledRejection"}

\* process.on(...) handlers, lines 263-275: the exit code each asks for
SignalExitCode(signal) == IF signal \in {"SIGINT", "SIGTERM"} THEN 0 ELSE 1

IdleHandler == [pc |-> "idle", id |-> "m1", listener |-> "message", at |-> None,
                passed |-> FALSE, filtered |-> FALSE]

ColInit ==
  /\ filterAllows \in [Keys -> BOOLEAN]
  /\ isShuttingDown = FALSE
  /\ handlers = [e \in Events |-> IdleHandler]
  /\ processLog = <<>>
  /\ publishLog = <<>>
  /\ colShutdown = [pc |-> "idle", exitCode |-> 0]
  /\ colTriggers = <<>>
  /\ colCleanups = 0
  /\ colExits = <<>>

ColParked ==
  /\ filterAllows = [k \in Keys |-> TRUE]
  /\ isShuttingDown = FALSE
  /\ handlers = [e \in Events |-> IdleHandler]
  /\ processLog = <<>>
  /\ publishLog = <<>>
  /\ colShutdown = [pc |-> "idle", exitCode |-> 0]
  /\ colTriggers = <<>>
  /\ colCleanups = 0
  /\ colExits = <<>>

\* The process has ended: process.exit was called
ColExited == colExits # <<>>

\* lines 139-142: the event is dropped when shouldProcess returned false
DropsDuplicateNever(shouldProcess) == FALSE

DropsDuplicate(shouldProcess) == ~shouldProcess

\* lines 159-165: the event is dropped when shouldSaveMessage returned false
FilterDropsAll(shouldSave) == TRUE

FilterDrops(shouldSave) == ~shouldSave

\* A listener fires for message `id`: handleMessage up to its first await,
\* lines 132-168.  Events are numbered in the order in which they fire.
HandleMessage(e, id, listener) ==
  LET result == ShouldProcessResult(seen, id, now, dedupWindow)
      h == [IdleHandler EXCEPT !.id = id, !.listener = listener, !.at = now]
  IN
  /\ ~ColExited
  /\ handlers[e].pc = "idle"
  /\ \A k \in 1..(e - 1) : handlers[k].pc # "idle"
  /\ IF isShuttingDown
       THEN /\ handlers' = [handlers EXCEPT ![e] = [h EXCEPT !.pc = "ignored"]]
            /\ UNCHANGED <<dedupVars, processLog>>
       ELSE /\ ShouldProcessCall(id)
            /\ IF DropsDuplicate(result)
                 THEN /\ handlers' = [handlers EXCEPT ![e] = [h EXCEPT !.pc = "duplicate"]]
                      /\ UNCHANGED processLog
                 ELSE IF FilterDrops(filterAllows[id])
                   THEN /\ handlers' = [handlers EXCEPT ![e] =
                             [h EXCEPT !.pc = "filtered-out", !.passed = result,
                                       !.filtered = TRUE]]
                        /\ UNCHANGED processLog
                   ELSE /\ handlers' = [handlers EXCEPT ![e] =
                             [h EXCEPT !.pc = "processing", !.passed = result,
                                       !.filtered = TRUE]]
                        /\ processLog' = Append(processLog, e)
  /\ UNCHANGED <<filterAllows, isShuttingDown, publishLog, colShutdown, colTriggers,
                 colCleanups, colExits, notCol>>

\* await messageProcessor.processMessage(message) completes: lines 168-171; a
\* failure is caught and logged, lines 180-187
ProcessMessageDone(e, ok) ==
  /\ ~ColExited
  /\ handlers[e].pc = "processing"
  /\ IF ok
       THEN /\ handlers' = [handlers EXCEPT ![e].pc = "publishing"]
            /\ publishLog' = Append(publishLog, e)
       ELSE /\ handlers' = [handlers EXCEPT ![e].pc = "failed"]
            /\ UNCHANGED publishLog
  /\ UNCHANGED <<filterAllows, isShuttingDown, processLog, colShutdown, colTriggers,
                 colCleanups, colExits, dedupVars, notCol>>

\* await publisher.publish(processedMessage) completes: lines 171-179
PublishReturned(e) ==
  /\ ~ColExited
  /\ handlers[e].pc = "publishing"
  /\ handlers' = [handlers EXCEPT ![e].pc = "done"]
  /\ UNCHANGED <<filterAllows, isShuttingDown, processLog, publishLog, colShutdown,
                 colTriggers, colCleanups, colExits, dedupVars, notCol>>

\* Date.now() advances between events
ColAdvanceClock(d) ==
  /\ ~ColExited
  /\ now + d <= MaxColTime
  /\ now' = now + d
  /\ UNCHANGED <<dedupWindow, seen, lastCall, lastTrue, colVars, notCol>>

\* A signal or fatal error arrives: shutdown(signal, exitCode) up to its first
\* await, lines 240-250
ColTrigger(signal) ==
  /\ ~ColExited
  /\ Len(colTriggers) < MaxTriggers
  /\ colTriggers' = Append(colTriggers, [signal |-> signal, ran |-> ~isShuttingDown])
  /\ IF isShuttingDown
       THEN UNCHANGED <<isShuttingDown, colShutdown, colCleanups>>
       ELSE /\ isShuttingDown' = TRUE
            /\ colShutdown' = [pc |-> "disconnect", exitCode |-> SignalExitCode(signal)]
            /\ colCleanups' = colCleanups + 1
  /\ UNCHANGED <<filterAllows, handlers, processLog, publishLog, colExits, dedupVars, notCol>>

\* await publisher.disconnect() completes: lines 250-253, or the catch, 257-260
ColDisconnectDone(ok) ==
  /\ ~ColExited
  /\ colShutdown.pc = "disconnect"
  /\ IF ok
       THEN /\ colShutdown' = [colShutdown EXCEPT !.pc = "destroy"]
            /\ UNCHANGED colExits
       ELSE /\ colShutdown' = [colShutdown EXCEPT !.pc = "exited"]
            /\ colExits' = Append(colExits, 1)
  /\ UNCHANGED <<filterAllows, isShuttingDown, handlers, processLog, publishLog, colTriggers,
                 colCleanups, dedupVars, notCol>>

\* await whatsAppClient.client.destroy() completes: lines 253-256, or the catch
ColDestroyDone(ok) ==
  /\ ~ColExited
  /\ colShutdown.pc = "destroy"
  /\ colShutdown' = [colShutdown EXCEPT !.pc = "exited"]
  /\ colExits' = Append(colExits, IF ok THEN colShutdown.exitCode ELSE 1)
  /\ UNCHANGED <<filterAllows, isShuttingDown, handlers, processLog, publishLog, colTriggers,
                 colCleanups, dedupVars, notCol>>

\* The collector while it runs: events, their handlers, time
ColNext ==
  \/ \E e \in Events, id \in Keys, listener \in Listeners : HandleMessage(e, id, listener)
  \/ \E e \in Events, ok \in BOOLEAN : ProcessMessageDone(e, ok)
  \/ \E e \in Events : PublishReturned(e)
  \/ \E d \in 1..MaxStep : ColAdvanceClock(d)

\* The collector while it is told to stop: events, their handlers, shutdown
ColDownNext ==
  \/ \E e \in Events, id \in Keys, listener \in Listeners : HandleMessage(e, id, listener)
  \/ \E e \in Events, ok \in BOOLEAN : ProcessMessageDone(e, ok)
  \/ \E e \in Events : PublishReturned(e)
  \/ \E signal \in Signals : ColTrigger(signal)
  \/ \E ok \in BOOLEAN : ColDisconnectDone(ok)
  \/ \E ok \in BOOLEAN : ColDestroyDone(ok)

(***************************************************************************)
(* The message-storage process (message-storage/src/index.ts):             *)
(* MessageStorageService.handleMessage, shutdown, and the process's signal *)
(* and error handlers.  Message m uses the generate call of slot m.        *)
(***************************************************************************)
Triggers == 1..MaxTriggers

IdleStoHandler == [pc |-> "idle", text |-> "", embedding |-> "null", provider |-> "null"]

StoInit ==
  /\ stoHandlers = [m \in GenCalls |-> IdleStoHandler]
  /\ saveCalls = <<>>
  /\ messageCount = 0
  /\ errorCount = 0
  /\ stoRuns = [t \in Triggers |-> "none"]
  /\ stoTriggers = <<>>
  /\ stoCleanups = 0
  /\ stoExits = <<>>

\* The process has ended: process.exit was called
StoExited == stoExits # <<>>

\* line 81: this.storage.saveMessage(message, embedding, embeddingProvider) is called
SaveMessageCall(m, embedding, provider) ==
  saveCalls' = Append(saveCalls, [message |-> m, embedding |-> embedding, provider |-> provider])

\* lines 72-77: the arguments handleMessage passes on after generate has settled
EmbeddingAfterKept(outcome, provider) == [embedding |-> "vector", provider |-> provider]

EmbeddingAfter(outcome, provider) ==
  IF outcome = "resolved" THEN [embedding |-> "vector", provider |-> provider]
  ELSE [embedding |-> "null", provider |-> "null"]

\* The subscriber hands message m to handleMessage: lines 63-71, and 81 when the
\* text is blank
StoHandle(m, text) ==
  /\ ~StoExited
  /\ embState = "constructed"
  /\ stoHandlers[m].pc = "idle"
  /\ IF IsBlank(text)
       THEN /\ stoHandlers' = [stoHandlers EXCEPT ![m] = [IdleStoHandler EXCEPT
                                  !.pc = "saving", !.text = text]]
            /\ SaveMessageCall(m, "null", "null")
            /\ UNCHANGED embVars
       ELSE /\ stoHandlers' = [stoHandlers EXCEPT ![m] = [IdleStoHandler EXCEPT
                                  !.pc = "embedding", !.text = text]]
            /\ StartCallStep(m, "generate", text, 1, TRUE)
            /\ UNCHANGED saveCalls
  /\ UNCHANGED <<messageCount, errorCount, stoRuns, stoTriggers, stoCleanups, stoExits, notSto>>

\* await this.embedding.generate(message.text) has settled: lines 71-81
StoAfterGenerate(m) ==
  LET g == genCalls[m]
      r == EmbeddingAfter(g.outcome, g.provider)
  IN
  /\ ~StoExited
  /\ stoHandlers[m].pc = "embedding"
  /\ g.pc = "done"
  /\ stoHandlers' = [stoHandlers EXCEPT ![m].pc = "saving", ![m].embedding = r.embedding,
                                        ![m].provider = r.provider]
  /\ SaveMessageCall(m, r.embedding, r.provider)
  /\ UNCHANGED <<messageCount, errorCount, stoRuns, stoTriggers, stoCleanups, stoExits,
                 embVars, notSto>>

\* await this.storage.saveMessage(...) has settled: lines 81-95
StoSaveDone(m, ok) ==
  /\ ~StoExited
  /\ stoHandlers[m].pc = "saving"
  /\ stoHandlers' = [stoHandlers EXCEPT ![m].pc = IF ok THEN "done" ELSE "failed"]
  /\ messageCount' = IF ok THEN messageCount + 1 ELSE messageCount
  /\ errorCount' = IF ok THEN errorCount ELSE errorCount + 1
  /\ UNCHANGED <<saveCalls, stoRuns, stoTriggers, stoCleanups, stoExits, embVars, notSto>>

\* A provider call of the storage process's EmbeddingService completes
StoProviderReturns(c, ok) == ~StoExited /\ ProviderReturns(c, ok)

\* new MessageStorageService(): the constructor builds the EmbeddingService
StoConstruct == Construct

\* A signal or fatal error arrives: the process.on handlers, lines 155-175.
\* SIGINT and SIGTERM call service.shutdown(), which starts with
\* subscriber.disconnect(); uncaughtException exits; unhandledRejection logs.
StoTrigger(t, signal) ==
  /\ ~StoExited
  /\ stoRuns[t] = "none"
  /\ \A k \in 1..(t - 1) : stoRuns[k] # "none"
  /\ stoTriggers' = Append(stoTriggers,
        [signal |-> signal, during |-> \E k \in Triggers : stoRuns[k] \in {"disconnect", "closeDatabase"}])
  /\ CASE signal \in {"SIGINT", "SIGTERM"} ->
            /\ stoRuns' = [stoRuns EXCEPT ![t] = "disconnect"]
            /\ stoCleanups' = stoCleanups + 1
            /\ UNCHANGED stoExits
       [] signal = "uncaughtException" ->
            /\ stoRuns' = [stoRuns EXCEPT ![t] = "exited"]
            /\ stoExits' = Append(stoExits, 1)
            /\ UNCHANGED stoCleanups
       [] OTHER ->
            /\ stoRuns' = [stoRuns EXCEPT ![t] = "logged"]
            /\ UNCHANGED <<stoCleanups, stoExits>>
  /\ UNCHANGED <<stoHandlers, saveCalls, messageCount, errorCount, embVars, notSto>>

\* service.shutdown() of trigger t: await this.subscriber.disconnect() completes,
\* lines 141-147; a failure is caught, shutdown returns and the handler exits
StoDisconnectDone(t, ok) ==
  /\ ~StoExited
  /\ stoRuns[t] = "disconnect"
  /\ IF ok
       THEN /\ stoRuns' = [stoRuns EXCEPT ![t] = "closeDatabase"]
            /\ UNCHANGED stoExits
       ELSE /\ stoRuns' = [stoRuns EXCEPT ![t] = "exited"]
            /\ stoExits' = Append(stoExits, 0)
  /\ UNCHANGED <<stoHandlers, saveCalls, messageCount, errorCount, stoTriggers, stoCleanups,
                 embVars, notSto>>

\* service.shutdown() of trigger t: await closeDatabase() completes; shutdown
\* returns and the signal handler calls process.exit(0), lines 157-158
StoCloseDatabaseDone(t, ok) ==
  /\ ~StoExited
  /\ stoRuns[t] = "closeDatabase"
  /\ stoRuns' = [stoRuns EXCEPT ![t] = "exited"]
  /\ stoExits' = Append(stoExits, 0)
  /\ UNCHANGED <<stoHandlers, saveCalls, messageCount, errorCount, stoTriggers, stoCleanups,
                 embVars, notSto>>

\* The storage process while it runs
StoNext ==
  \/ StoConstruct
  \/ \E m \in GenCalls, text \in Texts : StoHandle(m, text)
  \/ \E c \in GenCalls, ok \in BOOLEAN : StoProviderReturns(c, ok)
  \/ \E m \in GenCalls : StoAfterGenerate(m)
  \/ \E m \in GenCalls, ok \in BOOLEAN : StoSaveDone(m, ok)

\* The storage process while it is told to stop
StoDownNext ==
  \/ StoConstruct
  \/ \E m \in GenCalls, text \in Texts : StoHandle(m, text)
  \/ \E m \in GenCalls : StoAfterGenerate(m)
  \/ \E m \in GenCalls, ok \in BOOLEAN : StoSaveDone(m, ok)
  \/ \E t \in Triggers, signal \in Signals : StoTrigger(t, signal)
  \/ \E t \in Triggers, ok \in BOOLEAN : StoDisconnectDone(t, ok)
  \/ \E t \in Triggers, ok \in BOOLEAN : StoCloseDatabaseDone(t, ok)

(***************************************************************************)
(* SubscriberService (message-storage/services/SubscriberService): the     *)
(* callback registered with client.subscribe.  A delivery runs the         *)
(* callback up to `await this.handler(message)`; the handler's promise     *)
(* settles in a later step, so callbacks of several deliveries overlap.    *)
(***************************************************************************)
Deliveries == 1..NumDeliveries

\* JavaScript truthiness of a parsed value (the operand of `!`)
Truthy(v) ==
  CASE v.kind \in {"undefined", "null"} -> FALSE
    [] v.kind = "string" -> v.str # <<>>
    [] OTHER -> TRUE

\* line 71: the required fields are there
HasRequiredFieldsNoChatId(parsed) ==
  /\ Truthy(Get(parsed, <<"messageId">>))
  /\ Get(parsed, <<"text">>) # Undefined

HasRequiredFields(parsed) ==
  /\ Truthy(Get(parsed, <<"messageId">>))
  /\ Truthy(Get(parsed, <<"chatId">>))
  /\ Get(parsed, <<"text">>) # Undefined

\* parseMessage(payload), lines 65-88: null for a payload JSON.parse rejects,
\* for the value null (reading its property throws inside the try) and for a
\* value without the required fields
parseMessage(payload) ==
  LET parsed == JsonParse(payload) IN
  IF ~parsed.ok \/ parsed.value.kind = "null" THEN JsNull
  ELSE IF ~HasRequiredFields(parsed.value) THEN JsNull
  ELSE parsed.value

\* The payloads the transport delivers
Member(key, value) == <<"dq", key, "dq", ":">> \o value
Str(chars) == <<"dq">> \o chars \o <<"dq">>
ObjectText(members) ==
  <<"{">> \o members[1]
    \o (IF Len(members) > 1 THEN <<",">> \o members[2] ELSE <<>>)
    \o (IF Len(members) > 2 THEN <<",">> \o members[3] ELSE <<>>)
    \o <<"}">>
SubPayloads ==
  { ObjectText(<<Member("messageId", Str(<<"a">>)), Member("chatId", Str(<<"a">>)),
                 Member("text", Str(<<"a">>))>>),
    ObjectText(<<Member("messageId", Str(<<"a">>)), Member("chatId", Str(<<"a">>)),
                 Member("text", Str(<<>>))>>),
    ObjectText(<<Member("messageId", Str(<<"a">>)), Member("chatId", Str(<<"a">>)),
                 Member("text", <<"null">>)>>),
    ObjectText(<<Member("messageId", <<"1">>), Member("chatId", Str(<<"a">>)),
                 Member("text", Str(<<"a">>))>>),
    ObjectText(<<Member("messageId", Str(<<"a">>)), Member("chatId", Str(<<"a">>))>>),
    ObjectText(<<Member("messageId", Str(<<"a">>)), Member("text", Str(<<"a">>))>>),
    ObjectText(<<Member("chatId", Str(<<"a">>)), Member("text", Str(<<"a">>))>>),
    ObjectText(<<Member("messageId", Str(<<>>)), Member("chatId", Str(<<"a">>)),
                 Member("text", Str(<<"a">>))>>),
    ObjectText(<<Member("messageId", Str(<<"a">>)), Member("chatId", <<"null">>),
                 Member("text", Str(<<"a">>))>>),
    <<"{", "}">>,
    <<"null">>,
    <<"1">>,
    Str(<<"a">>),
    <<"{", "dq", "messageId", "dq", ":", "dq", "a">>,
    <<"a">>,
    <<>> }

IdleSubCall ==
  [pc |-> "idle", payload |-> <<>>, invoked |-> FALSE, handlerThrew |-> FALSE,
   outcome |-> "none"]

SubInit == subCalls = [d \in Deliveries |-> IdleSubCall]

\* lines 47-57: what the callback's promise does when the code inside its try
\* block threw or not; the catch logs and lets the callback return
CallbackOutcome(threw) == "returned"

\* The transport delivers payload: the callback runs up to its first await
SubDeliver(d, payload) ==
  LET message == parseMessage(payload) IN
  /\ subCalls[d].pc = "idle"
  /\ \A k \in 1..(d - 1) : subCalls[k].pc # "idle"
  /\ subCalls' = [subCalls EXCEPT ![d] =
        IF message # JsNull
          THEN [IdleSubCall EXCEPT !.pc = "handler", !.payload = payload, !.invoked = TRUE,
                                   !.outcome = "pending"]
          ELSE [IdleSubCall EXCEPT !.pc = "done", !.payload = payload,
                                   !.outcome = CallbackOutcome(FALSE)]]
  /\ UNCHANGED notSub

\* `await this.handler(message)` completes: the handler's promise resolved, or
\* the handler threw or its promise rejected
SubHandlerSettles(d, ok) ==
  /\ subCalls[d].pc = "handler"
  /\ subCalls' = [subCalls EXCEPT ![d].pc = "done", ![d].handlerThrew = ~ok,
                                  ![d].outcome = CallbackOutcome(~ok)]
  /\ UNCHANGED notSub

SubNext ==
  \/ \E d \in Deliveries, payload \in SubPayloads : SubDeliver(d, payload)
  \/ \E d \in Deliveries, ok \in BOOLEAN : SubHandlerSettles(d, ok)

(***************************************************************************)
(* retryWithBackoff (whatsapp-collector/utils/retry).  One action is the   *)
(* completion of `await fn()` or of the sleep; fn's outcome is chosen by   *)
(* the environment.                                                        *)
(***************************************************************************)
RetryIdle == [pc |-> "idle", attempt |-> 0, delay |-> 0]

RetryStart ==
  /\ retryRun = RetryIdle
  /\ retrySleeps = <<>>
  /\ retryCalls = <<>>

\* Every configuration config.retry can hold within the bounds
RetryInit ==
  /\ retryOptions \in [maxRetries : 0..MaxRetries, initialDelay : 1..MaxRetryDelay,
                       backoffMultiplier : 1..MaxMultiplier, maxDelay : 1..MaxRetryDelay]
  /\ RetryStart

RetryParked ==
  /\ retryOptions = [maxRetries |-> maxRetries, initialDelay |-> initialDelay,
                     backoffMultiplier |-> backoffMultiplier, maxDelay |-> maxDelay]
  /\ RetryStart

\* lines 51-54: the call up to the first `await fn()`
RetryCall ==
  /\ retryRun.pc = "idle"
  /\ retryRun' = [pc |-> "calling", attempt |-> 0, delay |-> retryOptions.initialDelay]
  /\ UNCHANGED <<retryOptions, retrySleeps, retryCalls, notRetry>>

\* line 60: whether a failed attempt is followed by a sleep and another attempt
SleepsAfterLoose(attempt, options) == attempt <= options.maxRetries

SleepsAfter(attempt, options) == attempt < options.maxRetries

\* lines 55-66, 72: `await fn()` completes
RetryFnSettles(ok) ==
  /\ retryRun.pc = "calling"
  /\ retryCalls' = Append(retryCalls, ok)
  /\ IF ok
       THEN /\ retryRun' = [retryRun EXCEPT !.pc = "returned"]
            /\ UNCHANGED retrySleeps
       ELSE IF SleepsAfter(retryRun.attempt, retryOptions)
         THEN /\ retryRun' = [retryRun EXCEPT !.pc = "sleeping"]
              /\ retrySleeps' = Append(retrySleeps, retryRun.delay)
         ELSE /\ retryRun' = [retryRun EXCEPT !.pc = "threw", !.attempt = @ + 1]
              /\ UNCHANGED retrySleeps
  /\ UNCHANGED <<retryOptions, notRetry>>

\* lines 66-67 and the loop's attempt++: the sleep is over
RetrySleepDone ==
  /\ retryRun.pc = "sleeping"
  /\ retryRun' = [pc |-> IF retryRun.attempt + 1 <= retryOptions.maxRetries
                           THEN "calling" ELSE "threw",
                  attempt |-> retryRun.attempt + 1,
                  delay |-> Min(retryRun.delay * retryOptions.backoffMultiplier,
                                retryOptions.maxDelay)]
  /\ UNCHANGED <<retryOptions, retrySleeps, retryCalls, notRetry>>

RetryNext ==
  \/ RetryCall
  \/ \E ok \in BOOLEAN : RetryFnSettles(ok)
  \/ RetrySleepDone

(***************************************************************************)
(* FilterService and parseFilterContacts (whatsapp-collector).  Strings    *)
(* are sequences of characters; the suffixes "@c.us", "@C.US", "@g.us" and *)
(* "@broadcast" are single characters of the model.                        *)
(***************************************************************************)
\* String.prototype.toLowerCase, per character
LowerChar(c) ==
  CASE c = "F" -> "f"
    [] c = "@C.US" -> "@c.us"
    [] OTHER -> c

toLowerCase(str) == [i \in 1..Len(str) |-> LowerChar(str[i])]

\* String.prototype.trim
trim(str) ==
  LET solid == {i \in 1..Len(str) : str[i] # "sp"} IN
  IF solid = {} THEN <<>>
  ELSE SubSeq(str, CHOOSE i \in solid : \A j \in solid : i <= j,
                   CHOOSE i \in solid : \A j \in solid : j <= i)

\* filterContacts.ts lines 8-10
normalizeContactIdentifier(value) == toLowerCase(trim(value))

\* rawValue.split(',')
SplitCommas(str) ==
  LET ends == {i \in 1..Len(str) : str[i] = ","} \cup {Len(str) + 1}
      End(k) == CHOOSE e \in ends : Cardinality({x \in ends : x < e}) = k - 1
  IN [k \in 1..Cardinality(ends) |->
        SubSeq(str, (IF k = 1 THEN 0 ELSE End(k - 1)) + 1, End(k) - 1)]

\* CONTACT_ID_REGEX.test(contact): the contact ends with a known suffix
IsContactId(contact) ==
  contact # <<>> /\ contact[Len(contact)] \in {"@c.us", "@g.us", "@broadcast"}

\* parseFilterContacts(rawValue).validContacts, lines 12-21
validContacts(rawValue) ==
  LET pieces == SplitCommas(rawValue)
      contacts == SelectSeq([i \in 1..Len(pieces) |-> normalizeContactIdentifier(pieces[i])],
                            LAMBDA c : c # <<>>)
  IN SelectSeq(contacts, IsContactId)

\* Array.prototype.includes
Includes(list, x) == \E i \in 1..Len(list) : list[i] = x

\* The sender as shouldSaveMessage uses it in the contact check (lines 88, 96)
MatchKeyNormalized(from) == normalizeContactIdentifier(from)

MatchKey(from) == from

\* FilterService.shouldSaveMessage(from, isGroup, isBroadcast), lines 65-105
shouldSaveMessage(cfg, from, isGroup, isBroadcast) ==
  IF isBroadcast /\ ~cfg.includeBroadcast THEN FALSE
  ELSE IF cfg.groupsFilter = "only" /\ ~isGroup THEN FALSE
  ELSE IF cfg.groupsFilter = "exclude" /\ isGroup THEN FALSE
  ELSE IF cfg.mode = "allowlist" THEN Includes(cfg.contacts, MatchKey(from))
  ELSE IF cfg.mode = "blocklist" THEN ~Includes(cfg.contacts, MatchKey(from))
  ELSE TRUE

\* Values of FILTER_CONTACTS, and the sender identifiers of messages
RawContactValues ==
  { <<>>,
    <<"sp", "F", "@C.US", ",", "f", "f", "@g.us", ",", "f", "@broadcast", "sp">>,
    <<"f", "@c.us">>,
    <<"F", "f", "@c.us", ",", ",", "f">>,
    <<"f", "F", "@C.US", "sp", ",", "sp", "f", "@g.us">>,
    <<"sp", ",", "F", "F", "@c.us">>,
    <<"f", "@g.us", ",", "f", "f", "@broadcast">> }
IdChars == {"F", "f", "sp"}
Suffixes == {"@c.us", "@C.US", "@g.us", "@broadcast"}
SenderIds ==
  {body \o <<suffix>> : body \in UNION {[1..n -> IdChars] : n \in 1..MaxIdLen},
                        suffix \in Suffixes}

NoFilterCall ==
  [n |-> 0, from |-> <<>>, isGroup |-> FALSE, isBroadcast |-> FALSE, result |-> FALSE,
   resultNormalized |-> FALSE]

\* config.filter as config.ts builds it from the environment
FilterConfigOf(raw, mode, groupsFilter, includeBroadcast) ==
  [mode |-> mode, contacts |-> validContacts(raw), groupsFilter |-> groupsFilter,
   includeBroadcast |-> includeBroadcast]

FilterInit ==
  /\ rawContacts \in RawContactValues
  /\ \E mode \in {"all", "allowlist", "blocklist"}, groupsFilter \in {"include", "exclude", "only"},
        includeBroadcast \in BOOLEAN :
       filterConfig = FilterConfigOf(rawContacts, mode, groupsFilter, includeBroadcast)
  /\ lastFilter = NoFilterCall

FilterParked ==
  /\ rawContacts = <<>>
  /\ filterConfig = FilterConfigOf(<<>>, "all", "include", FALSE)
  /\ lastFilter = NoFilterCall

\* One call of shouldSaveMessage; the history also keeps the result of the
\* same call for the sender's normalized form
ShouldSave(from, isGroup, isBroadcast) ==
  /\ lastFilter' = [n |-> 1, from |-> from, isGroup |-> isGroup, isBroadcast |-> isBroadcast,
                    result |-> shouldSaveMessage(filterConfig, from, isGroup, isBroadcast),
                    resultNormalized |->
                      shouldSaveMessage(filterConfig, normalizeContactIdentifier(from),
                                        isGroup, isBroadcast)]
  /\ UNCHANGED <<rawContacts, filterConfig, notFilter>>

FilterNext ==
  \E from \in SenderIds, isGroup \in BOOLEAN, isBroadcast \in BOOLEAN :
    ShouldSave(from, isGroup, isBroadcast)

(***************************************************************************)
(* Specifications                                                          *)
(***************************************************************************)
InitDedup == DedupInit /\ TermParked /\ PubInit /\ EmbParked /\ FileInit /\ ColParked /\ StoInit /\ SubInit /\ RetryParked /\ FilterParked

InitTerm == TermInit /\ DedupParked /\ PubInit /\ EmbParked /\ FileInit /\ ColParked /\ StoInit /\ SubInit /\ RetryParked /\ FilterParked

InitPub == PubInit /\ DedupParked /\ TermParked /\ EmbParked /\ FileInit /\ ColParked /\ StoInit /\ SubInit /\ RetryParked /\ FilterParked

InitEmb == EmbInit /\ DedupParked /\ TermParked /\ PubInit /\ FileInit /\ ColParked /\ StoInit /\ SubInit /\ RetryParked /\ FilterParked

InitFile == FileInit /\ DedupParked /\ TermParked /\ PubInit /\ EmbParked /\ ColParked /\ StoInit /\ SubInit /\ RetryParked /\ FilterParked

SpecDedup == InitDedup /\ [][DedupNext]_vars

SpecTerm == InitTerm /\ [][TermNext]_vars

SpecPub == InitPub /\ [][PubNext]_vars

SpecEmb == InitEmb /\ [][EmbNext]_vars

InitCol == DedupInit /\ ColInit /\ TermParked /\ PubInit /\ EmbParked /\ FileInit /\ StoInit /\ SubInit /\ RetryParked /\ FilterParked

SpecFile == InitFile /\ [][FileNext]_vars

SpecCol == InitCol /\ [][ColNext]_vars

InitColDown == ColParked /\ DedupParked /\ TermParked /\ PubInit /\ EmbParked /\ FileInit /\ StoInit /\ SubInit /\ RetryParked /\ FilterParked

SpecColDown == InitColDown /\ [][ColDownNext]_vars

InitSto == EmbInit /\ StoInit /\ DedupParked /\ TermParked /\ PubInit /\ FileInit
             /\ ColParked /\ SubInit /\ RetryParked /\ FilterParked

SpecSto == InitSto /\ [][StoNext]_vars

InitStoDown == EmbParked /\ StoInit /\ DedupParked /\ TermParked /\ PubInit /\ FileInit
             /\ ColParked /\ SubInit /\ RetryParked /\ FilterParked

SpecStoDown == InitStoDown /\ [][StoDownNext]_vars

InitSub == SubInit /\ DedupParked /\ TermParked /\ PubInit /\ EmbParked /\ FileInit
             /\ ColParked /\ StoInit /\ RetryParked /\ FilterParked

InitRetry == RetryInit /\ DedupParked /\ TermParked /\ PubInit /\ EmbParked /\ FileInit
               /\ ColParked /\ StoInit /\ SubInit /\ FilterParked

SpecRetry == InitRetry /\ [][RetryNext]_vars

InitFilter == FilterInit /\ DedupParked /\ TermParked /\ PubInit /\ EmbParked /\ FileInit
                /\ ColParked /\ StoInit /\ SubInit /\ RetryParked

SpecFilter == InitFilter /\ [][FilterNext]_vars

SpecSub == InitSub /\ [][SubNext]_vars

\* Every provider call settles
SpecEmbFair ==
  SpecEmb /\ \A c \in GenCalls : WF_vars(\E ok \in BOOLEAN : ProviderReturns(c, ok))

\* The publisher while disconnect() is not called
PubLiveNext ==
  \/ Connect
  \/ \E e \in {"error", "connect", "disconnect"} : RedisEvent(e)
  \/ \E m \in Msgs : Publish(m)
  \/ \E m \in Msgs, ok \in BOOLEAN : PublishAttempt(m, ok)
  \/ \E m \in Msgs, ok \in BOOLEAN : PublishDeadLetter(m, ok)
  \/ \E f \in FlushSlots : FlushTick(f)
  \/ \E f \in FlushSlots, ok \in BOOLEAN : FlushSend(f, ok)
  \/ \E f \in FlushSlots, ok \in BOOLEAN : FlushDeadLetter(f, ok)

\* The interval keeps firing and every send and every dead-letter write settles
SpecPubLive ==
  /\ InitPub /\ [][PubLiveNext]_vars
  /\ WF_vars(\E f \in FlushSlots : FlushTick(f))
  /\ WF_vars(\E f \in FlushSlots, ok \in BOOLEAN : FlushSend(f, ok))
  /\ WF_vars(\E f \in FlushSlots, ok \in BOOLEAN : FlushDeadLetter(f, ok))
  /\ WF_vars(\E m \in Msgs, ok \in BOOLEAN : PublishAttempt(m, ok))
  /\ WF_vars(\E m \in Msgs, ok \in BOOLEAN : PublishDeadLetter(m, ok))

\* The collector's handlers run on; nothing in whatsapp-client.ts makes
\* publisher.disconnect() or client.destroy() settle, and shutdown arms no timer
SpecColDownFair ==
  /\ SpecColDown
  /\ WF_vars(\E e \in Events, ok \in BOOLEAN : ProcessMessageDone(e, ok))
  /\ WF_vars(\E e \in Events : PublishReturned(e))

SpecTermFair == SpecTerm /\ WF_vars(HardTimeoutFires) /\ WF_vars(TermTick)

(***************************************************************************)
(* Claims: publisher                                                       *)
(***************************************************************************)
\* The messages whose publish call has returned, in the order publish was called
DoneOrder == SelectSeq(pubOrder, LAMBDA m : pubCalls[m].pc = "done")

InDeadLetter(reason, item) ==
  \E i \in 1..Len(deadLetter) : deadLetter[i] = DeadLetterRecord(reason, item)

DeadLetterCount(item) ==
  Cardinality({i \in 1..Len(deadLetter) : deadLetter[i].payload = item.payload})

InQueue(item) == \E i \in 1..Len(failedQueue) : failedQueue[i] = item

WasDelivered(item) == delivered[item.payload] > 0

\* The queue holds exactly the first C returned messages, every later one is in
\* the dead-letter file with reason queue-full and not in the queue
FirstCQueuedRestDeadLettered ==
  LET done == DoneOrder IN
  /\ Len(failedQueue) = Min(maxSize, Len(done))
  /\ {failedQueue[i] : i \in 1..Len(failedQueue)}
       = {Item(done[i]) : i \in 1..Min(maxSize, Len(done))}
  /\ \A i \in (maxSize + 1)..Len(done) :
       /\ InDeadLetter("queue-full", Item(done[i]))
       /\ DeadLetterCount(Item(done[i])) = 1
       /\ ~InQueue(Item(done[i]))

PublishNeverRejects ==
  \A m \in Msgs :
    /\ pubCalls[m].outcome # "rejected"
    /\ pubCalls[m].pc = "done" => pubCalls[m].outcome = "resolved"

PublishAbsorbsDeadLetterFailure ==
  \E m \in Msgs :
    /\ pubCalls[m].pc = "done"
    /\ pubCalls[m].via = "dropped"
    /\ pubCalls[m].attempt = maxRetries
    /\ m \in dlqFailed
    /\ pubCalls[m].outcome = "resolved"

\* The final flush attempted every item queued at disconnect once, in order
FinalFlushAttemptedAll ==
  [i \in 1..Len(discAttempts) |-> discAttempts[i].item] = discStartQueue

\* C5 as claimed: disconnect() called with a non-empty queue and nothing else in
\* progress: when it has returned the queue is empty, the final flush attempted
\* every queued item once, each item whose final send succeeded is delivered and
\* each item whose final send failed is in the dead-letter file with reason
\* shutdown-unflushed.
DisconnectDrainsAsClaimed ==
  (disc.pc = "done" /\ ~hist.discDirty /\ Len(discStartQueue) > 0) =>
    /\ failedQueue = <<>>
    /\ FinalFlushAttemptedAll
    /\ \A i \in 1..Len(discAttempts) :
         LET a == discAttempts[i] IN
         IF a.ok THEN WasDelivered(a.item) /\ DeadLetterCount(a.item) = 0
         ELSE ~WasDelivered(a.item) /\ InDeadLetter("shutdown-unflushed", a.item)

\* C5 amended: the same, except that an item whose final send failed is in the
\* dead-letter file with reason shutdown-unflushed exactly when its dead-letter
\* write succeeded; when that write failed the item is dropped.
DisconnectDrainsQueue ==
  (disc.pc = "done" /\ ~hist.discDirty /\ Len(discStartQueue) > 0) =>
    /\ failedQueue = <<>>
    /\ FinalFlushAttemptedAll
    /\ \A i \in 1..Len(discAttempts) :
         LET a == discAttempts[i] IN
         IF a.ok THEN WasDelivered(a.item) /\ DeadLetterCount(a.item) = 0
         ELSE /\ ~WasDelivered(a.item)
              /\ InDeadLetter("shutdown-unflushed", a.item) # (a.item.payload \in dlqFailed)
              /\ DeadLetterCount(a.item) <= 1

DisconnectDrainsWitness ==
  /\ disc.pc = "done" /\ ~hist.discDirty
  /\ Len(discStartQueue) = maxSize
  /\ failedQueue = <<>>
  /\ \E i, j \in 1..Len(discAttempts) :
       /\ discAttempts[i].ok /\ WasDelivered(discAttempts[i].item)
       /\ ~discAttempts[j].ok
       /\ InDeadLetter("shutdown-unflushed", discAttempts[j].item)

(***************************************************************************)
(* Claims: deduplicator                                                    *)
(***************************************************************************)
\* C1: a call shouldProcess(k, t2) made less than windowMs after the latest call
\* for k that returned true (at t1 <= t2) returns false, whatever calls for
\* other keys were made in between.
DedupBlocksInsideWindow ==
  (lastCall.prevTrue # None /\ lastCall.at - lastCall.prevTrue < dedupWindow)
    => lastCall.result = FALSE

DedupBlockedWitness ==
  /\ lastCall.prevTrue # None
  /\ lastCall.at > lastCall.prevTrue
  /\ lastCall.at - lastCall.prevTrue < dedupWindow
  /\ lastCall.result = FALSE
  /\ \E k \in Keys : k # lastCall.key /\ lastTrue[k] > lastCall.prevTrue

\* C2: a call shouldProcess(k, t2) made windowMs or more (also exactly windowMs)
\* after the latest call for k that returned true returns true and records t2
\* as the key's timestamp; every accepted key keeps its entry while it is
\* fresh, so a further call less than windowMs after t2 is a duplicate.
DedupAllowsAfterWindow ==
  /\ (lastCall.prevTrue # None /\ lastCall.at - lastCall.prevTrue >= dedupWindow)
       => (lastCall.result = TRUE /\ seen[lastCall.key] = lastCall.at)
  /\ \A k \in Keys :
       (lastTrue[k] # None /\ now - lastTrue[k] < dedupWindow)
         => (seen[k] = lastTrue[k] /\ ~ShouldProcessResult(seen, k, now, dedupWindow))

DedupRefreshedWitness ==
  /\ lastCall.prevTrue # None
  /\ lastCall.at - lastCall.prevTrue = dedupWindow
  /\ lastCall.result = TRUE
  /\ seen[lastCall.key] = lastCall.at
  /\ now > lastCall.at
  /\ now - lastCall.at < dedupWindow

(***************************************************************************)
(* Claims: terminator                                                      *)
(***************************************************************************)
\* C6: once terminate has been invoked twice or more, the cleanup callback has
\* run exactly once and the exit callback is called exactly once: never twice,
\* and with the first invocation's exit code once cleanup has succeeded.
TerminateTwiceOneCleanupOneExit ==
  Len(termCalls) >= 2 =>
    /\ shutdownCalls = 1
    /\ Len(exits) <= 1
    /\ shutdownState = "resolved" => exits = <<termCalls[FirstCall].exitCode>>

\* C7: while the cleanup callback has not settled, no exit is called before
\* timeoutMs has elapsed, the only exit is the forced one with code 1 whatever
\* code was requested, and once the timeout has elapsed that exit is forced.
CleanupPendingExits ==
  shutdownState = "pending" =>
    \/ exits = <<>> /\ hardTimeout = "armed"
    \/ exits = <<1>> /\ hardTimeout = "fired" /\ firedAt >= timeoutMs

NeverSettlingCleanupForcesExit1 ==
  /\ []CleanupPendingExits
  /\ (shutdownState = "pending") ~> (shutdownState # "pending" \/ exits = <<1>>)

ForcedExitWitness ==
  /\ shutdownState = "pending"
  /\ exits = <<1>>
  /\ termCalls[FirstCall].exitCode = 0
  /\ firedAt >= timeoutMs

\* C8: when the cleanup callback resolves before the hard timeout has fired, the
\* timeout is cancelled and exit is called with the requested code; the timeout
\* never fires afterwards, so that exit stays the only one.
CleanupResolvedExitsWithRequestedCode ==
  (shutdownState = "resolved" /\ firedAt = None) =>
    /\ hardTimeout = "cleared"
    /\ exits = <<termCalls[FirstCall].exitCode>>

CleanupResolvedWitness ==
  /\ shutdownState = "resolved"
  /\ firedAt = None
  /\ ~halted
  /\ elapsed > timeoutMs
  /\ exits = <<0>>

\* C9: when the cleanup callback rejects before the hard timeout has fired, the
\* timeout is cancelled, exit is called with code 1 whatever code was requested,
\* and the terminate call itself resolves.
CleanupRejectedExitsWith1 ==
  (shutdownState = "rejected" /\ firedAt = None) =>
    /\ hardTimeout = "cleared"
    /\ exits = <<1>>
    /\ \A i \in 1..Len(termCalls) : termCalls[i].outcome = "resolved"

CleanupRejectedWitness ==
  /\ shutdownState = "rejected"
  /\ firedAt = None
  /\ termCalls[FirstCall].exitCode = 0
  /\ exits = <<1>>
  /\ termCalls[FirstCall].outcome = "resolved"

(***************************************************************************)
(* Claims: embedding service                                               *)
(***************************************************************************)
NoCredentials == ~embeddingConfig.openaiKey /\ ~embeddingConfig.geminiKey

\* C10: a service built with no provider credentials and required = false is
\* constructed without error in degraded mode: isAvailable() is false,
\* getDimensions() is 0, the reason is recorded, and every generate call with
\* non-blank text is rejected with the unavailable error carrying that reason,
\* no provider being called.
DegradedModeWithoutCredentials ==
  (embState # "unbuilt" /\ NoCredentials /\ ~embeddingConfig.required) =>
    /\ embState = "constructed"
    /\ ~isAvailable
    /\ getDimensions = 0
    /\ getUnavailableReason = MissingKeyMessage(embeddingConfig.provider)
    /\ \A name \in ProviderTypes : providerCalls[name] = 0
    /\ \A c \in GenCalls :
         (genCalls[c].kind = "generate" /\ genCalls[c].valid > 0) =>
           /\ genCalls[c].pc = "done"
           /\ genCalls[c].outcome = "rejected"
           /\ genCalls[c].error = UnavailableError(getUnavailableReason)
           /\ genCalls[c].error.message = MissingKeyMessage(embeddingConfig.provider)

DegradedGenerateWitness ==
  /\ embState = "constructed" /\ NoCredentials /\ ~embeddingConfig.required
  /\ embeddingConfig.fallbackProvider # "none"
  /\ ~isAvailable
  /\ \E c \in GenCalls :
       /\ genCalls[c].kind = "generate" /\ genCalls[c].valid > 0
       /\ genCalls[c].outcome = "rejected"
       /\ genCalls[c].error.kind = "unavailable"

\* C11: a service built with required = true whose primary provider cannot be
\* created fails at construction: the constructor throws, no instance exists,
\* so no call is ever made on it; an instance that exists with required = true
\* has its primary provider and is not in degraded mode.
RequiredWithoutProviderThrows ==
  /\ (embState # "unbuilt" /\ embeddingConfig.required
        /\ ~HasKey(embeddingConfig, embeddingConfig.provider)) =>
       /\ embState = "threw"
       /\ \A c \in GenCalls : genCalls[c].pc = "idle"
       /\ \A name \in ProviderTypes : providerCalls[name] = 0
  /\ (embState = "constructed" /\ embeddingConfig.required) =>
       (isAvailable /\ getUnavailableReason = "null")

RequiredThrowsWitness ==
  /\ embState = "threw"
  /\ embeddingConfig.required
  /\ NoCredentials
  /\ primary = "null"

\* C12: when a generate or generateBatch call has exhausted its retries on the
\* primary provider and then on the fallback provider, the error raised to the
\* caller is the primary provider's last error, not the fallback's.
BothExhaustedRaisesPrimaryError ==
  \A c \in GenCalls :
    (/\ genCalls[c].pc = "done" /\ genCalls[c].outcome = "rejected"
     /\ genCalls[c].primaryError.kind = "provider" /\ fallback # "null") =>
      /\ genCalls[c].error = genCalls[c].primaryError
      /\ genCalls[c].error.provider = primary

(***************************************************************************)
(* Claims: dead-letter file                                                *)
(***************************************************************************)
\* The call appended exactly one line and left the earlier lines alone
AppendedOneLine(lines, before) ==
  /\ Len(lines) = Len(before) + 1
  /\ SubSeq(lines, 1, Len(before)) = before
  /\ SubSeq(fileContent, 1, Len(lastWrite.before)) = lastWrite.before

\* C13: each call writeDeadLetterRecord(path, channel, payload, reason) that
\* returns has appended exactly one line to the file; the record parsed from
\* that line has the given reason and channel, a non-empty timestamp, the
\* messageId read from the payload, and a payload equal to the original
\* payload string; the earlier lines of the file are unchanged.
DeadLetterRecordRoundTrips ==
  LET lines == Lines(fileContent)
      rec == JsonParse(lines[Len(lines)])
      parsed == JsonParse(lastWrite.payload)
  IN
  lastWrite.outcome = "resolved" =>
    /\ AppendedOneLine(lines, Lines(lastWrite.before))
    /\ rec.ok
    /\ rec.value.kind = "object"
    /\ Get(rec.value, <<"reason">>) = JsString(<<lastWrite.reason>>)
    /\ Get(rec.value, <<"channel">>) = JsString(<<lastWrite.channel>>)
    /\ Get(rec.value, <<"timestamp">>).kind = "string"
    /\ Len(Get(rec.value, <<"timestamp">>).str) > 0
    /\ Get(rec.value, <<"payload">>) = JsString(lastWrite.payload)
    /\ (parsed.ok /\ parsed.value.kind = "object")
         => Get(rec.value, <<"messageId">>) = Get(parsed.value, <<"messageId">>)

DeadLetterRoundTripWitness ==
  LET lines == Lines(fileContent)
      rec == JsonParse(lines[Len(lines)])
  IN
  /\ lastWrite.outcome = "resolved"
  /\ lastWrite.n = 2
  /\ lastWrite.payload
       = <<"{", "dq", "messageId", "dq", ":", "dq", "a", "bs", "dq", "bs", "n", "bs", "bs", "dq", "}">>
  /\ Len(lines) = 2
  /\ Get(rec.value, <<"messageId">>) = JsString(<<"a", "dq", "lf", "bs">>)
  /\ Get(rec.value, <<"payload">>) = JsString(lastWrite.payload)

\* The payload does not parse, or parses to a value that is not an object
NotAnObject(payload) ==
  LET parsed == JsonParse(payload) IN ~parsed.ok \/ parsed.value.kind # "object"

\* C14: for a payload that is not parseable, or that parses to a value that is
\* not an object, the messageId extraction does not raise: the call returns
\* whenever the file operations succeed, the record is appended with channel,
\* reason and the original payload, and it has no messageId.
UnparseablePayloadStillRecorded ==
  LET lines == Lines(fileContent)
      rec == JsonParse(lines[Len(lines)])
  IN
  (lastWrite.n > 0 /\ NotAnObject(lastWrite.payload)) =>
    /\ lastWrite.outcome = (IF lastWrite.ok THEN "resolved" ELSE "rejected")
    /\ lastWrite.ok =>
         /\ AppendedOneLine(lines, Lines(lastWrite.before))
         /\ rec.ok
         /\ Get(rec.value, <<"reason">>) = JsString(<<lastWrite.reason>>)
         /\ Get(rec.value, <<"channel">>) = JsString(<<lastWrite.channel>>)
         /\ Get(rec.value, <<"payload">>) = JsString(lastWrite.payload)
         /\ \A i \in 1..Len(rec.value.members) : rec.value.members[i].key # <<"messageId">>

UnparseablePayloadWitness ==
  LET lines == Lines(fileContent)
      rec == JsonParse(lines[Len(lines)])
      first == JsonParse(lines[1])
  IN
  /\ lastWrite.outcome = "resolved"
  /\ lastWrite.payload = <<"null">>
  /\ Len(lines) = 2
  /\ Get(rec.value, <<"messageId">>) = Undefined
  /\ Get(rec.value, <<"payload">>) = JsString(lastWrite.payload)
  /\ Get(first.value, <<"payload">>) = JsString(<<"a", "dq">>)
  /\ Get(first.value, <<"messageId">>) = Undefined

(***************************************************************************)
(* Claims: collector                                                       *)
(***************************************************************************)
\* The event went past the dedup gate
PastGate(e) == handlers[e].pc \notin {"idle", "ignored", "duplicate"}

TimesIn(log, e) == Cardinality({i \in 1..Len(log) : log[i] = e})

\* C15: of the 'message_create' and 'message' events that fire for one message
\* ID less than windowMs apart, in any interleaving of their handlers, at most
\* one goes past the dedup gate; it is processed and handed to
\* publisher.publish at most once, and every later event for the ID inside the
\* window is dropped before filtering, processing and publishing.
DuplicateEventsPublishedOnce ==
  /\ \A e1, e2 \in Events :
       (/\ e1 < e2 /\ handlers[e2].pc # "idle" /\ handlers[e1].id = handlers[e2].id
        /\ PastGate(e1) /\ handlers[e2].at - handlers[e1].at < dedupWindow) =>
         /\ handlers[e2].pc \in {"duplicate", "ignored"}
         /\ ~handlers[e2].filtered
         /\ TimesIn(processLog, e2) = 0
         /\ TimesIn(publishLog, e2) = 0
  /\ \A e \in Events : TimesIn(processLog, e) <= 1 /\ TimesIn(publishLog, e) <= 1
  /\ \A e1, e2 \in Events :
       (/\ e1 < e2 /\ handlers[e1].id = handlers[e2].id
        /\ TimesIn(publishLog, e1) = 1 /\ TimesIn(publishLog, e2) = 1) =>
         handlers[e2].at - handlers[e1].at >= dedupWindow

DuplicateEventsWitness ==
  /\ handlers[1].pc = "publishing"
  /\ handlers[1].listener = "message_create"
  /\ handlers[2].pc = "duplicate"
  /\ handlers[2].listener = "message"
  /\ handlers[2].id = handlers[1].id
  /\ handlers[2].at = handlers[1].at
  /\ handlers[3].pc = "duplicate"
  /\ handlers[3].id = handlers[1].id
  /\ handlers[3].at > handlers[1].at
  /\ publishLog = <<1>>

(***************************************************************************)
(* Claims: shutdown of the two services                                    *)
(***************************************************************************)
\* In the collector every trigger goes through shutdown; the first one runs the
\* cleanup, a later one is a no-op, and the process exits at most once
CollectorShutdownOnce ==
  /\ colCleanups = Min(1, Len(colTriggers))
  /\ \A i \in 1..Len(colTriggers) : colTriggers[i].ran = (i = 1)
  /\ Len(colExits) <= 1
  /\ colExits # <<>> => colShutdown.pc = "exited"

\* The same for message-storage: once a trigger has arrived the cleanup has
\* been started exactly once, and the process exits only through it
StorageShutdownOnce ==
  /\ stoCleanups = Min(1, Len(stoTriggers))
  /\ Len(stoExits) <= 1
  /\ stoExits # <<>> => stoCleanups = 1

\* C16: in whatsapp-collector and in message-storage SIGINT, SIGTERM, an
\* uncaught exception and an unhandled rejection all go through the same
\* cleanup, and a trigger that arrives while the cleanup is in progress is a
\* no-op: the cleanup runs once and the process exits once.
EveryTriggerOneCleanup == CollectorShutdownOnce /\ StorageShutdownOnce

(***************************************************************************)
(* Claims: message-storage handler                                         *)
(***************************************************************************)
SaveCallsOf(m) == {i \in 1..Len(saveCalls) : saveCalls[i].message = m}

\* C17: a message handed to handleMessage is saved whatever generate did: once
\* generate has settled (resolved, rejected as unavailable, or rejected with a
\* provider error after the retries), or was skipped for a blank text,
\* saveMessage has been called exactly once for the message, with the
\* embedding and its provider when generate resolved and with a null
\* embedding and a null provider otherwise; before that it has not been called.
SavedWhateverEmbeddingDid ==
  \A m \in GenCalls :
    LET h == stoHandlers[m]
        g == genCalls[m]
    IN
    /\ h.pc \in {"idle", "embedding"} => SaveCallsOf(m) = {}
    /\ h.pc \in {"saving", "done", "failed"} =>
         /\ Cardinality(SaveCallsOf(m)) = 1
         /\ \A i \in SaveCallsOf(m) :
              IF ~IsBlank(h.text) /\ g.outcome = "resolved"
                THEN /\ saveCalls[i].embedding = "vector"
                     /\ saveCalls[i].provider = g.provider
                     /\ g.provider \in {primary, fallback} \ {"null"}
                ELSE /\ saveCalls[i].embedding = "null"
                     /\ saveCalls[i].provider = "null"
         /\ IF IsBlank(h.text) THEN g.pc = "idle"
            ELSE g.pc = "done" /\ g.outcome \in {"resolved", "rejected"}

SavedAfterProviderErrorWitness ==
  \E m \in GenCalls :
    /\ stoHandlers[m].pc = "done"
    /\ genCalls[m].outcome = "rejected"
    /\ genCalls[m].error.kind = "provider"
    /\ fallback # "null"
    /\ providerCalls[primary] >= maxAttempts
    /\ \E i \in SaveCallsOf(m) : saveCalls[i].embedding = "null" /\ saveCalls[i].provider = "null"
    /\ messageCount = 1


(***************************************************************************)
(* C18.  Outcomes of the items a flush takes                               *)
(***************************************************************************)
\* Every outcome the flushes have recorded so far, finished flush or running
FlushOutcomes ==
  {lastFlush.outcomes[i] : i \in DOMAIN lastFlush.outcomes}
    \cup UNION {{flushes[f].outcomes[i] : i \in DOMAIN flushes[f].outcomes} : f \in FlushSlots}

HeldIn(item, queue) == \E i \in DOMAIN queue : queue[i] = item

FlushRecord(item) == DeadLetterRecord("flush-requeue-full", item)

\* An item whose send succeeded is out of the queue; an item whose send failed
\* while the queue held fewer than maxSize items is back at the queue's tail
SentOrRequeued(o) ==
  /\ o.ok => o.via = "sent" /\ ~HeldIn(o.item, o.after)
  /\ (~o.ok /\ Len(o.before) < maxSize) =>
       o.via = "requeued" /\ o.after = Append(o.before, o.item)

\* A finished flush has recorded one outcome for each item it took, in order
EveryItemHasOutcome ==
  /\ Len(lastFlush.outcomes) = Len(lastFlush.toFlush)
  /\ \A i \in DOMAIN lastFlush.toFlush : lastFlush.outcomes[i].item = lastFlush.toFlush[i]

\* C18 as stated: in a flush every item sent successfully is removed from the
\* queue, every item whose send fails is re-queued (queue below capacity at
\* that moment) or written to dead-letter with reason flush-requeue-full, and
\* no item the flush took ends in none of these outcomes.
FlushOutcomesAsClaimed ==
  /\ EveryItemHasOutcome
  /\ \A o \in FlushOutcomes :
       /\ SentOrRequeued(o)
       /\ (~o.ok /\ Len(o.before) >= maxSize) =>
            /\ o.via = "dead-letter"
            /\ HeldIn(FlushRecord(o.item), deadLetter)

\* C18 amended: an item whose send fails while the queue is full is handed to
\* the dead-letter writer with reason flush-requeue-full; it is in the file
\* when that write succeeds, and is dropped (not re-queued) when it fails.
FlushOutcomesHandled ==
  /\ EveryItemHasOutcome
  /\ \A o \in FlushOutcomes :
       /\ SentOrRequeued(o)
       /\ (~o.ok /\ Len(o.before) >= maxSize) =>
            /\ o.via \in {"dead-letter", "dropped"}
            /\ ~HeldIn(o.item, o.after)
            /\ o.via = "dead-letter" => HeldIn(FlushRecord(o.item), deadLetter)
            /\ o.via = "dropped" =>
                 o.item.payload \in dlqFailed /\ ~HeldIn(FlushRecord(o.item), deadLetter)

\* A finished flush that re-queued its first item and, the queue then being
\* full, wrote its second item to dead-letter
FlushFullQueueWitness ==
  /\ Len(lastFlush.toFlush) = 2
  /\ lastFlush.outcomes[1].via = "requeued"
  /\ lastFlush.outcomes[2].via = "dead-letter"
  /\ Len(lastFlush.outcomes[2].before) = maxSize
  /\ HeldIn(FlushRecord(lastFlush.toFlush[2]), deadLetter)


(***************************************************************************)
(* C19.  Exactly-once persistence downstream                               *)
(***************************************************************************)
\* Message m is still held by the publisher: in the queue, or in a flush that
\* has not dealt with it yet
HeldByPublisher(m) ==
  \/ HeldIn(Item(m), failedQueue)
  \/ \E f \in FlushSlots :
       /\ flushes[f].pc # "idle"
       /\ \E i \in flushes[f].idx..Len(flushes[f].toFlush) : flushes[f].toFlush[i] = Item(m)
  \/ HeldIn(Item(m), disc.remaining)

\* C19 (necessary condition on the publisher): every event handed to publish
\* is persisted downstream exactly once, never zero times and never twice, so
\* once publish has returned and the publisher no longer holds the message,
\* the transport has accepted it exactly once.
PublishedReachesTransportOnce ==
  \A m \in Msgs :
    (pubCalls[m].pc = "done" /\ ~HeldByPublisher(m)) => delivered[m] = 1


(***************************************************************************)
(* C20.  Unknown message categories                                        *)
(***************************************************************************)
UnknownCategory(m) == MessageTypeOf(m) \notin KnownTypes

Malformed(payload) ==
  LET parsed == JsonParse(payload) IN
  \/ ~parsed.ok
  \/ parsed.value.kind # "object"
  \/ \E key \in {"messageId", "chatId", "text"} : Get(parsed.value, <<key>>) = Undefined

\* C21: a delivered payload that is not valid JSON or lacks messageId, chatId
\* or text is dropped without invoking the handler; an exception raised by
\* the handler is caught; in both cases the callback completes normally, and
\* well-formed deliveries are handled whatever happened to earlier ones.
MalformedDroppedHandlerErrorsCaught ==
  \A d \in Deliveries :
    LET c == subCalls[d]
        malformed == Malformed(c.payload)
    IN
    c.pc # "idle" =>
      /\ malformed => (~c.invoked /\ c.pc = "done" /\ c.outcome = "returned")
      /\ c.handlerThrew => (c.pc = "done" /\ c.outcome = "returned")
      /\ c.pc = "done" => c.outcome = "returned"

\* A malformed delivery was dropped, the handler threw on the next delivery,
\* and the delivery after both reached the handler
LaterDeliveryHandledWitness ==
  /\ subCalls[1].pc = "done" /\ Malformed(subCalls[1].payload) /\ ~subCalls[1].invoked
  /\ subCalls[2].pc = "done" /\ subCalls[2].handlerThrew
  /\ subCalls[3].pc = "handler" /\ subCalls[3].invoked


(***************************************************************************)
(* C22.  The delays of retryWithBackoff                                    *)
(***************************************************************************)
BackoffFormula(k) ==
  Min(retryOptions.initialDelay * Pow(retryOptions.backoffMultiplier, k - 1),
      retryOptions.maxDelay)

\* C22: the delay slept after the k-th failed attempt equals
\* min(initialDelay * backoffMultiplier^(k-1), maxDelay); no delay exceeds
\* maxDelay, also the first one when initialDelay > maxDelay.
DelaysFollowCappedFormula ==
  \A k \in DOMAIN retrySleeps : retrySleeps[k] = BackoffFormula(k)

\* The same for configurations with initialDelay <= maxDelay
DelaysFollowFormulaWithinCap ==
  retryOptions.initialDelay <= retryOptions.maxDelay => DelaysFollowCappedFormula

\* With initialDelay > maxDelay only the first delay is off: it is initialDelay
OnlyFirstDelayUncapped ==
  \A k \in DOMAIN retrySleeps :
    retrySleeps[k] = IF k = 1 THEN retryOptions.initialDelay ELSE BackoffFormula(k)


(***************************************************************************)
(* C23.  Filter entries and sender identifiers are normalized alike        *)
(***************************************************************************)
\* C23: in allowlist and blocklist mode a sender identifier that equals a
\* configured entry after normalization is matched, so shouldSaveMessage
\* gives the same result for an identifier and for its normalized form.
SenderNormalizedBeforeMatching ==
  (lastFilter.n > 0 /\ filterConfig.mode \in {"allowlist", "blocklist"}) =>
    lastFilter.result = lastFilter.resultNormalized

\* The configured entries are normalized: each is trimmed, lower-case, and
\* ends with a known suffix
ConfiguredEntriesNormalized ==
  \A i \in 1..Len(filterConfig.contacts) :
    LET c == filterConfig.contacts[i] IN
    c = normalizeContactIdentifier(c) /\ IsContactId(c)


(***************************************************************************)
(* C24.  Deduplication keeps coverage of distinct messages                 *)
(***************************************************************************)
\* Event e is the first event that carries its message ID
FirstOfItsId(e) == \A k \in 1..(e - 1) : handlers[k].id # handlers[e].id

TerminateCalled == Len(termCalls') = Len(termCalls) + 1

\* C25: the terminating flag goes from false to true at the first terminate
\* call and is never reset; a terminate call made while the flag is set, also
\* after cleanup has finished and exit was called, neither runs the cleanup
\* callback again nor calls exit again.
TerminatingSetOnceNeverReset ==
  [][/\ terminating => terminating'
     /\ (~terminating /\ terminating') => (TerminateCalled /\ termCalls = <<>>)
     /\ TerminateCalled =>
          /\ terminating'
          /\ terminating =>
               /\ shutdownCalls' = shutdownCalls
               /\ shutdownState' = shutdownState
               /\ exits' = exits
               /\ hardTimeout' = hardTimeout]_vars

\* terminate was called again after cleanup had finished and exit had been
\* called (by an onExit that returns): one cleanup, no further exit
TerminateAfterExitWitness ==
  /\ Len(termCalls) >= 2
  /\ shutdownState \in {"resolved", "rejected"}
  /\ termCalls[Len(termCalls)].exitsSeen >= 1
  /\ Len(exits) = termCalls[Len(termCalls)].exitsSeen
  /\ terminating
  /\ shutdownCalls = 1


(***************************************************************************)
(* C26.  The fallback provider's retry sequence and counts                 *)
(***************************************************************************)
\* The provider calls call c has made in the given role
RoleCalls(c, role) ==
  SelectSeq(genCalls[c].log, LAMBDA entry : entry.role = role)

\* The role's retry sequence of call c has failed as a whole
Exhausted(c, role) ==
  /\ Len(RoleCalls(c, role)) = maxAttempts
  /\ \A i \in 1..maxAttempts : ~RoleCalls(c, role)[i].ok

\* Call c has started a retry sequence in the role (recordRequest was called)
SequenceStarted(c, role) == genCalls[c].pc = role \/ RoleCalls(c, role) # <<>>

Succeeded(c, role) ==
  \E i \in 1..Len(RoleCalls(c, role)) : RoleCalls(c, role)[i].ok

NameOf(role) == IF role = "primary" THEN primary ELSE fallback

\* How many of the calls satisfy P for a role played by provider `name`
CountFor(name, P(_, _)) ==
  Cardinality({<<c, role>> \in GenCalls \X {"primary", "fallback"} :
                 NameOf(role) = name /\ P(c, role)})

\* C26: the fallback provider is called only after the primary's whole retry
\* sequence has failed in the same call; the fallback gets its own full retry
\* sequence and its own request, success and failure counts; a successful
\* result names the provider that produced the embedding.
FallbackAfterPrimaryExhausted ==
  /\ \A c \in GenCalls :
       LET g == genCalls[c]
           fb == RoleCalls(c, "fallback")
       IN
       /\ SequenceStarted(c, "fallback") =>
            /\ Exhausted(c, "primary")
            /\ \A i \in 1..maxAttempts : g.log[i].role = "primary"
            /\ fallback # "null"
       /\ \A i \in 1..Len(fb) : fb[i].attempt = i /\ fb[i].name = fallback
       /\ (g.pc = "done" /\ g.outcome = "rejected" /\ SequenceStarted(c, "fallback")) =>
            Exhausted(c, "fallback")
       /\ (g.pc = "done" /\ g.outcome = "resolved" /\ g.valid > 0) =>
            LET last == g.log[Len(g.log)] IN
            /\ last.ok
            /\ g.provider = last.name
            /\ g.provider = NameOf(last.role)
  /\ embState = "constructed" =>
       \A name \in ProviderTypes :
         stats[name].init =>
           /\ stats[name].requestCount = CountFor(name, SequenceStarted)
           /\ stats[name].successCount = CountFor(name, Succeeded)
           /\ stats[name].failureCount = CountFor(name, Exhausted)

\* A call whose primary failed three times and whose fallback, a different
\* provider, succeeded at its second attempt
FallbackSucceededWitness ==
  \E c \in GenCalls :
    /\ genCalls[c].pc = "done" /\ genCalls[c].outcome = "resolved"
    /\ primary # fallback
    /\ genCalls[c].provider = fallback
    /\ Len(genCalls[c].log) = maxAttempts + 2
    /\ stats[fallback].requestCount = 1 /\ stats[fallback].successCount = 1
    /\ stats[primary].failureCount = 1


(***************************************************************************)
(* C27.  No primary provider, fallback provider initialized                *)
(***************************************************************************)
PrimaryMissingFallbackReady ==
  embState = "constructed" /\ primary = "null" /\ fallback # "null"

\* C27: when the primary provider could not be initialized but the fallback
\* was, isAvailable() is false, getDimensions() is 0, and generate fails with
\* the 'unavailable' error carrying the primary's recorded reason, without
\* ever calling the fallback provider.
FallbackAloneStaysDegraded ==
  PrimaryMissingFallbackReady =>
    /\ ~isAvailable
    /\ getDimensions = 0
    /\ unavailableReason = MissingKeyMessage(embeddingConfig.provider)
    /\ providerCalls[fallback] = 0
    /\ \A c \in GenCalls :
         (genCalls[c].kind = "generate" /\ ~IsBlank(genCalls[c].text)) =>
           /\ genCalls[c].pc = "done"
           /\ genCalls[c].outcome = "rejected"
           /\ genCalls[c].error = UnavailableError(unavailableReason)
           /\ genCalls[c].error.message = MissingKeyMessage(embeddingConfig.provider)
           /\ genCalls[c].log = <<>>

\* generate("hi") was rejected as unavailable while a fallback provider exists
FallbackAloneWitness ==
  /\ PrimaryMissingFallbackReady
  /\ \E c \in GenCalls :
       /\ genCalls[c].kind = "generate" /\ genCalls[c].text = "hi"
       /\ genCalls[c].error.kind = "unavailable"


(***************************************************************************)
(* C28.  Blank text is a local validation error                            *)
(***************************************************************************)
\* The text is empty or consists of white space only
EmptyOrWhitespace(text) == text = "" \/ text = " "

\* Call c is a generate call with empty or whitespace-only text
BlankGenerate(g) == g.kind = "generate" /\ EmptyOrWhitespace(g.text)

\* C28: generate called with empty or whitespace-only text fails with the
\* local validation error, in available and in degraded mode alike, without
\* calling any provider and leaving every ProviderStat counter unchanged.
BlankTextRejectedLocally ==
  [][\A c \in GenCalls :
       (genCalls[c].pc = "idle" /\ BlankGenerate(genCalls'[c])) =>
         /\ genCalls'[c].pc = "done"
         /\ genCalls'[c].outcome = "rejected"
         /\ genCalls'[c].error = ValidationError
         /\ genCalls'[c].log = <<>>
         /\ stats' = stats
         /\ providerCalls' = providerCalls]_vars

\* In degraded mode a whitespace-only text was rejected as invalid while
\* another call, with real text, was rejected as unavailable
BlankInDegradedModeWitness ==
  /\ embState = "constructed" /\ primary = "null"
  /\ \E c, d \in GenCalls :
       /\ genCalls[c].kind = "generate" /\ genCalls[c].text = " "
       /\ genCalls[c].error.kind = "validation"
       /\ genCalls[d].kind = "generate" /\ genCalls[d].text = "hi"
       /\ genCalls[d].error.kind = "unavailable"


(***************************************************************************)
(* C29.  Bounded retries of one generate call                              *)
(***************************************************************************)
\* The calls of one call's log are bounded, stop at the first success, and
\* each failed attempt but the last of its sequence is followed by a sleep of
\* initialDelay * 2^(attempt-1)
RetriesBounded ==
  \A c \in GenCalls :
    LET log == genCalls[c].log IN
    /\ Len(RoleCalls(c, "primary")) <= 3
    /\ Len(RoleCalls(c, "fallback")) <= 3
    /\ \A i \in 1..Len(log) :
         /\ log[i].ok => i = Len(log) /\ genCalls[c].pc = "done"
         /\ log[i].attempt \in 1..3
         /\ i > 1 /\ log[i].role = log[i - 1].role => log[i].attempt = log[i - 1].attempt + 1
         /\ log[i].slept = IF ~log[i].ok /\ log[i].attempt < 3
                             THEN embInitialDelay * Pow(2, log[i].attempt - 1)
                             ELSE 0

\* C29: one generate call makes at most 3 calls to the primary provider and
\* at most 3 to the fallback, stops calling a provider at its first success,
\* sleeps initialDelay * 2^(attempt-1) only between attempts, and terminates
\* with a result or an error when every provider call settles.
GenerateCallsBoundedAndTerminate ==
  /\ []RetriesBounded
  /\ \A c \in GenCalls :
       (genCalls[c].pc \in {"primary", "fallback"}) ~>
         (genCalls[c].pc = "done" /\ genCalls[c].outcome \in {"resolved", "rejected"})

\* A call that used all six provider calls and slept 1, 2 in each sequence
SixCallsWitness ==
  \E c \in GenCalls :
    /\ genCalls[c].pc = "done" /\ genCalls[c].outcome = "rejected"
    /\ Len(genCalls[c].log) = 6
    /\ [i \in 1..6 |-> genCalls[c].log[i].slept] = <<1, 2, 0, 1, 2, 0>>


(***************************************************************************)
(* C30.  Send attempts of one publish call and where the item ends         *)
(***************************************************************************)
\* The lines of the dead-letter file that hold message m's item
RecordsOf(m) == {i \in DOMAIN deadLetter : deadLetter[i].payload = m}

\* How often message m's item is held in memory: in the queue, in a flush
\* that has not dealt with it yet, or in what disconnect still has to write
TimesHeld(m) ==
  Cardinality({i \in DOMAIN failedQueue : failedQueue[i] = Item(m)})
    + Cardinality({<<f, i>> \in FlushSlots \X (1..maxSize) :
                     /\ flushes[f].pc # "idle"
                     /\ i \in flushes[f].idx..Len(flushes[f].toFlush)
                     /\ flushes[f].toFlush[i] = Item(m)})
    + Cardinality({i \in DOMAIN disc.remaining : disc.remaining[i] = Item(m)})

\* The send attempts of publish call m: exactly 1 + maxRetries when all
\* fail, and none after the first that succeeds
SendAttemptsBounded(m) ==
  LET c == pubCalls[m] IN
  /\ Len(c.results) <= 1 + maxRetries
  /\ \A i \in DOMAIN c.results : c.results[i] => (i = Len(c.results) /\ c.via = "sent")
  /\ (c.pc \in {"dlq", "done"} /\ c.via # "sent") =>
       (Len(c.results) = 1 + maxRetries /\ \A i \in DOMAIN c.results : ~c.results[i])
  /\ c.via = "sent" => c.results[Len(c.results)]

\* The item is never in memory and in the dead-letter file at once, never
\* held twice and never recorded twice
NeverQueuedAndDeadLettered(m) ==
  /\ TimesHeld(m) + Cardinality(RecordsOf(m)) <= 1
  /\ pubCalls[m].via = "queued" =>
       \A i \in RecordsOf(m) : deadLetter[i].reason # "queue-full"
  /\ pubCalls[m].via = "dead-letter" =>
       (TimesHeld(m) = 0 /\ \E i \in RecordsOf(m) : deadLetter[i].reason = "queue-full")

\* C30 as stated: one publish call makes exactly 1 + maxRetries send attempts
\* when every send fails and stops at the first success otherwise; after the
\* last failed attempt the item is placed exactly once, in the queue or in
\* dead-letter, never both.
PublishPlacesItemAsClaimed ==
  \A m \in Msgs :
    /\ SendAttemptsBounded(m)
    /\ NeverQueuedAndDeadLettered(m)
    /\ (pubCalls[m].pc = "done" /\ pubCalls[m].via # "sent") =>
         pubCalls[m].via \in {"queued", "dead-letter"}

\* C30 amended: after the last failed attempt the item is queued, or handed
\* to the dead-letter writer: it is in the file when that write succeeds and
\* is dropped, in neither place, when the write fails.
PublishPlacesItemOnce ==
  \A m \in Msgs :
    /\ SendAttemptsBounded(m)
    /\ NeverQueuedAndDeadLettered(m)
    /\ (pubCalls[m].pc = "done" /\ pubCalls[m].via # "sent") =>
         /\ pubCalls[m].via \in {"queued", "dead-letter", "dropped"}
         /\ pubCalls[m].via = "dropped" =>
              (m \in dlqFailed /\ TimesHeld(m) = 0 /\ RecordsOf(m) = {})

\* Every send failed: two messages are in the queue, and the third was
\* written to dead-letter after its 1 + maxRetries attempts
QueuedAndDeadLetteredWitness ==
  /\ \A m \in Msgs : pubCalls[m].pc = "done" /\ Len(pubCalls[m].results) = 1 + maxRetries
  /\ pubCalls[1].via = "queued" /\ pubCalls[2].via = "queued"
  /\ pubCalls[3].via = "dead-letter"
  /\ Len(failedQueue) = maxSize
  /\ Len(deadLetter) = 1


(***************************************************************************)
(* C31.  When a periodic tick flushes, and how a flush sends               *)
(***************************************************************************)
\* This step is a tick of the interval that calls flushQueue in slot f
TickStartsFlush(f) == f # 0 /\ flushes[f].pc = "idle" /\ flushes'[f].pc # "idle"

\* flushQueue deals with its items one by one, each once, by one direct send
EachItemAttemptedOnce(fl) ==
  /\ fl.pc # "idle" => Len(fl.outcomes) = fl.idx - 1
  /\ \A i \in DOMAIN fl.outcomes :
       /\ fl.outcomes[i].item = fl.toFlush[i]
       /\ fl.outcomes[i].ok <=> fl.outcomes[i].via = "sent"

\* C31: a periodic tick flushes only when the queue is non-empty and the
\* transport is reported connected, so after an 'error' or 'disconnect' event
\* only once a 'connect' event followed; it never flushes after disconnect()
\* cleared the interval; a flush attempts each item it took exactly once.
TickFlushesOnlyWhenConnected ==
  /\ [][\A f \in FlushSlots :
          TickStartsFlush(f) =>
            /\ Len(failedQueue) > 0
            /\ isConnected
            /\ hist.lastEvent = "connect"
            /\ flushInterval = "active"
            /\ disc.pc = "idle"
            /\ flushes'[f].toFlush = failedQueue]_vars
  /\ [](\A f \in FlushSlots : EachItemAttemptedOnce(flushes[f]))
  /\ [](Len(lastFlush.outcomes) = Len(lastFlush.toFlush)
          /\ EachItemAttemptedOnce([IdleFlush EXCEPT !.toFlush = lastFlush.toFlush,
                                                     !.outcomes = lastFlush.outcomes]))
  /\ [](hist.lastEvent \in {"error", "disconnect"} => ~isConnected)

\* A periodic flush that a tick started is at its second item; since then an
\* 'error' event arrived and disconnect() cleared the interval
TickFlushedAfterReconnectWitness ==
  /\ flushes[1].pc = "send" /\ flushes[1].idx = 2 /\ Len(flushes[1].outcomes) = 1
  /\ hist.lastEvent = "error"
  /\ flushInterval = "cleared"


(***************************************************************************)
(* C32.  Order of a flush's attempts and of what it re-queues              *)
(***************************************************************************)
RECURSIVE FailedItems(_)
\* The items of a flush whose send failed, in the order of the attempts
FailedItems(outcomes) ==
  IF outcomes = <<>> THEN <<>>
  ELSE IF Head(outcomes).ok THEN FailedItems(Tail(outcomes))
       ELSE <<Head(outcomes).item>> \o FailedItems(Tail(outcomes))

\* The queue as the latest flush left it when it returned
QueueLeftBy(flush) == flush.outcomes[Len(flush.outcomes)].after

\* The attempts of the latest flush were made in the order of its snapshot
AttemptsInQueueOrder ==
  /\ Len(lastFlush.outcomes) = Len(lastFlush.toFlush)
  /\ \A i \in DOMAIN lastFlush.toFlush : lastFlush.outcomes[i].item = lastFlush.toFlush[i]

\* C32 as stated: a flush attempts its items in queue order, and after a flush
\* with no concurrent publish the queue is exactly the failed items in their
\* original order.
RequeuedInOrderAsClaimed ==
  /\ AttemptsInQueueOrder
  /\ (lastFlush.toFlush # <<>> /\ ~hist.pubInFlush) =>
       QueueLeftBy(lastFlush) = FailedItems(lastFlush.outcomes)

\* C32 amended: the same, for a flush that overlapped neither a publish call
\* nor another flush.
RequeuedInOrder ==
  /\ AttemptsInQueueOrder
  /\ (lastFlush.toFlush # <<>> /\ ~hist.pubInFlush /\ ~hist.flushOverlap) =>
       /\ QueueLeftBy(lastFlush) = FailedItems(lastFlush.outcomes)
       /\ \A i \in DOMAIN lastFlush.outcomes :
            lastFlush.outcomes[i].via \in {"sent", "requeued"}

\* A flush that ran alone failed both its items and re-queued them in order
BothRequeuedInOrderWitness ==
  /\ ~hist.pubInFlush /\ ~hist.flushOverlap
  /\ Len(lastFlush.toFlush) = 2
  /\ failedQueue = lastFlush.toFlush
  /\ \A i \in 1..2 : lastFlush.outcomes[i].via = "requeued"


(***************************************************************************)
(* C33.  No exit before cleanup has settled or the hard timeout has fired  *)
(***************************************************************************)
ExitCalledInStep == Len(exits') > Len(exits)

\* C33: exit is called only by the step in which the cleanup callback settles
\* or by the hard timeout once timeoutMs has elapsed; while cleanup is pending
\* and the timeout has not fired, no exit has been called.
ExitOnlyAfterCleanupOrTimeout ==
  /\ [][ExitCalledInStep =>
          \/ shutdownState = "pending" /\ shutdownState' \in {"resolved", "rejected"}
          \/ hardTimeout = "armed" /\ hardTimeout' = "fired" /\ elapsed >= timeoutMs]_vars
  /\ []((shutdownState \in {"notrun", "pending"} /\ hardTimeout # "fired") => exits = <<>>)

\* Cleanup resolved before timeoutMs had elapsed and exit was then called
ExitAfterCleanupBeforeTimeoutWitness ==
  /\ shutdownState = "resolved"
  /\ elapsed < timeoutMs
  /\ hardTimeout = "cleared"
  /\ Len(exits) = 1

(***************************************************************************)
(* C38.  How often one terminator calls exit                               *)
(***************************************************************************)
\* C38: the exit callback is invoked at most once in every execution, also
\* when it does not halt execution and cleanup settles after the hard timeout
\* has fired.
ExitCalledAtMostOnce == Len(exits) <= 1


(***************************************************************************)
(* C34.  The collector's shutdown and process exit                         *)
(***************************************************************************)
\* C34: after a shutdown trigger in the collector, process exit is eventually
\* called, also when publisher.disconnect() or the client's destroy never
\* settles.
CollectorShutdownEventuallyExits == isShuttingDown ~> ColExited


(***************************************************************************)
(* C35.  The queue's capacity                                              *)
(***************************************************************************)
\* C35: under every interleaving of publish calls, periodic flushes (two
\* overlapping ones included) and disconnect, the in-memory queue never holds
\* more than maxSize items.
QueueNeverExceedsCapacity ==
  /\ Len(failedQueue) <= maxSize
  /\ \A f \in FlushSlots : Len(flushes[f].toFlush) <= maxSize
  /\ Len(disc.remaining) <= maxSize

\* A flush whose send failed found the queue full: publish calls refilled it
\* after the flush had taken its snapshot, and the item goes to dead-letter
FullQueueDuringFlushWitness ==
  /\ Len(failedQueue) = maxSize
  /\ \E f \in FlushSlots : f # 0 /\ flushes[f].pc = "dlq"
  /\ disc.pc = "idle"

(***************************************************************************)
(* C36.  Where a message is once its publish call has given up             *)
(***************************************************************************)
\* The publish call of message m has used up its send attempts
RetriesExhausted(m) ==
  /\ pubCalls[m].pc \in {"dlq", "done"}
  /\ pubCalls[m].via # "sent"

\* How often message m's item is in the queue or in the part of a flush's
\* snapshot that the flush has not dealt with yet
TimesQueuedOrInFlush(m) ==
  Cardinality({i \in DOMAIN failedQueue : failedQueue[i] = Item(m)})
    + Cardinality({<<f, i>> \in FlushSlots \X (1..maxSize) :
                     /\ flushes[f].pc # "idle"
                     /\ i \in flushes[f].idx..Len(flushes[f].toFlush)
                     /\ flushes[f].toFlush[i] = Item(m)})

\* The number of places that hold message m: queue, flush snapshot, transport
\* and dead-letter file
PlacesHolding(m) == TimesQueuedOrInFlush(m) + delivered[m] + Cardinality(RecordsOf(m))

\* The publish call of m is awaiting its dead-letter write (lines 254-258)
BeingDeadLettered(m) == IF pubCalls[m].pc = "dlq" THEN 1 ELSE 0

NoDisconnectWritesSucceed == disc.pc = "idle" /\ dlqFailed = {}

\* C36 as stated: while disconnect has not been called and dead-letter writes
\* succeed, a message whose publish retries were exhausted is at every moment
\* in exactly one of queue, flush snapshot, transport and dead-letter file.
ExactlyOnePlaceAsClaimed ==
  NoDisconnectWritesSucceed =>
    \A m \in Msgs : RetriesExhausted(m) => PlacesHolding(m) = 1

\* C36 amended: the places include the dead-letter write that the publish
\* call is still awaiting when it found the queue full.
ExactlyOnePlace ==
  NoDisconnectWritesSucceed =>
    \A m \in Msgs :
      RetriesExhausted(m) =>
        /\ PlacesHolding(m) + BeingDeadLettered(m) = 1
        /\ delivered[m] <= 1


\* Three messages gave up: a flush delivered the first, a flush that found the
\* queue full dead-lettered the second, and the third is in the queue
OnePlaceEachWitness ==
  /\ NoDisconnectWritesSucceed
  /\ \A m \in Msgs : RetriesExhausted(m) /\ pubCalls[m].pc = "done"
  /\ \E a, b, c \in Msgs :
       /\ delivered[a] = 1
       /\ \E i \in RecordsOf(b) : deadLetter[i].reason = "flush-requeue-full"
       /\ TimesQueuedOrInFlush(c) = 1
  /\ hist.flushOverlap


(***************************************************************************)
(* C37.  disconnect() while a publish call or a flush is in progress       *)
(***************************************************************************)
\* disconnect() has returned, as has every publish call and every flush, no
\* publish was called after disconnect(), and every dead-letter write succeeded
AllCompletedAfterDisconnect ==
  /\ disc.pc = "done"
  /\ ~PublishBusy /\ ~FlushBusy
  /\ ~hist.pubAfterDisc
  /\ dlqFailed = {}

\* C37: once disconnect() and the publish calls and flushes that were in
\* progress when it ran have all completed, the in-memory queue is empty and
\* every message that failed its sends is recorded in dead-letter.
NothingLeftInMemoryAfterDisconnect ==
  AllCompletedAfterDisconnect =>
    /\ failedQueue = <<>>
    /\ \A m \in Msgs :
         (RetriesExhausted(m) /\ delivered[m] = 0) => RecordsOf(m) # {}


(***************************************************************************)
(* C39.  The per-provider counters                                         *)
(***************************************************************************)
GenInFlight == \E c \in GenCalls : genCalls[c].pc \in {"primary", "fallback"}

\* The calls that reached the provider in the given role
ReachedRole(role) ==
  {c \in GenCalls : \E i \in DOMAIN genCalls[c].log : genCalls[c].log[i].role = role}
    \cup {c \in GenCalls : genCalls[c].pc = role}

SettledNeverExceedRequests ==
  \A name \in ProviderTypes :
    /\ stats[name].successCount + stats[name].failureCount <= stats[name].requestCount
    /\ ~GenInFlight =>
         stats[name].successCount + stats[name].failureCount = stats[name].requestCount

\* C39 as stated: for every provider successCount + failureCount <=
\* requestCount, with equality when no call is in flight; requestCount grows
\* by one per service call that reaches the provider, not per attempt; the
\* fallback's requestCount never exceeds the primary's failureCount.
CountersConsistentAsClaimed ==
  embState = "constructed" =>
    /\ SettledNeverExceedRequests
    /\ primary # "null" =>
         stats[primary].requestCount = Cardinality(ReachedRole("primary"))
    /\ (primary # "null" /\ fallback # "null") =>
         /\ stats[fallback].requestCount = Cardinality(ReachedRole("fallback"))
         /\ stats[fallback].requestCount <= stats[primary].failureCount

\* C39 amended: the per-role statements hold when primary and fallback are
\* different providers; when both are the same provider they share one
\* counter record, which counts the calls of both roles.
CountersConsistent ==
  embState = "constructed" =>
    /\ SettledNeverExceedRequests
    /\ (primary # "null" /\ fallback # primary) =>
         stats[primary].requestCount = Cardinality(ReachedRole("primary"))
    /\ (primary # "null" /\ fallback # "null" /\ fallback # primary) =>
         /\ stats[fallback].requestCount = Cardinality(ReachedRole("fallback"))
         /\ stats[fallback].requestCount <= stats[primary].failureCount
    /\ (primary # "null" /\ fallback = primary) =>
         stats[primary].requestCount =
           Cardinality(ReachedRole("primary")) + Cardinality(ReachedRole("fallback"))

\* Two calls used up their three attempts at the primary and went on to the
\* fallback, a different provider; one has failed there, one is in flight
CountersWitness ==
  /\ primary # "null" /\ fallback # "null" /\ fallback # primary
  /\ stats[primary].requestCount = 2 /\ stats[primary].failureCount = 2
  /\ stats[fallback].requestCount = 2
  /\ stats[fallback].successCount = 0 /\ stats[fallback].failureCount = 1
  /\ providerCalls[primary] = 2 * maxAttempts
  /\ GenInFlight

(***************************************************************************)
(* C40.  The queue drains once the transport has recovered                 *)
(***************************************************************************)
\* A step in which a send to the transport fails
SendFailsInStep ==
  \/ \E m \in Msgs : PublishAttempt(m, FALSE)
  \/ \E f \in FlushSlots : FlushSend(f, FALSE)

\* A step that routes an item to the dead-letter writer
RoutedToDeadLetterInStep ==
  \/ \E m \in Msgs : pubCalls[m].pc # "dlq" /\ pubCalls'[m].pc = "dlq"
  \/ \E f \in FlushSlots : flushes[f].pc # "dlq" /\ flushes'[f].pc = "dlq"

\* From some point on no send fails and the transport is reported connected
TransportRecovered == <>[][~SendFailsInStep]_vars /\ <>[]isConnected

\* C40: if from some point on the transport is reported connected, every send
\* succeeds and the flush timer keeps firing, the queue eventually becomes and
\* stays empty with every flush finished, every message that was queued has
\* then been sent or was dead-lettered by a send that failed earlier, and an
\* item is routed to dead-letter only by a step in which its send failed.
QueueDrainsAfterRecovery ==
  /\ TransportRecovered =>
       <>[](/\ failedQueue = <<>> /\ ~FlushBusy
            /\ \A m \in Msgs :
                 pubCalls[m].via = "queued" =>
                   delivered[m] + Cardinality(RecordsOf(m)) = 1 \/ m \in dlqFailed)
  /\ [][RoutedToDeadLetterInStep => SendFailsInStep]_vars

\* Two messages were queued while sends failed and a later flush sent both;
\* the third was published directly: nothing is in dead-letter
DrainedWitness ==
  /\ pubCalls[1].via = "queued" /\ pubCalls[2].via = "queued" /\ pubCalls[3].via = "sent"
  /\ delivered = [m \in Msgs |-> 1]
  /\ failedQueue = <<>> /\ ~FlushBusy
  /\ deadLetter = <<>>
  /\ isConnected
====
